---- MODULE Spec2Model ----
(***************************************************************************)
(* LazyHydra (src/main.go, second program text, lines 744-1966): the       *)
(* override registry, the override-string builder, the persisted-state     *)
(* codec of .envrc and the key-event state machine of the TUI.             *)
(*                                                                         *)
(* Text is modelled as a sequence of one-character strings, so that        *)
(* prefixes, trimming, splitting, base64 and line scanning are computed    *)
(* the way the Go code computes them.                                      *)
(***************************************************************************)
EXTENDS Integers, Sequences, FiniteSets, TLC

VARIABLES
    pc,                 \* position of main(): "start", "loaded", "running", "stopped", "exit1";
                        \* of the codec on its own: "save", "load", "compared"
    disk,               \* the overrides directory: folder name -> folder, or NoDir
    rootReadable,       \* whether os.ReadDir of the overrides directory succeeds
    envrc,              \* $PROJECT_ROOT/.envrc: File(bytes), or NoFile
    overrides,          \* app.overrides
    applied,            \* app.applied (the keys of the map)
    availableList,      \* app.availableList: [items, cur]
    appliedList,        \* app.appliedList: [items, cur]
    overrideStringView, \* text of app.overrideStringView
    currentPanelIdx,    \* app.currentPanelIdx
    helpOpen,           \* app.helpOpen
    inputOpen,          \* app.inputOpen
    deleteOpen,         \* app.deleteOpen
    renameOpen,         \* app.renameOpen
    renameTarget,       \* app.renameTarget: index into overrides, 0 for nil
    loadWarning,        \* main() printed "Warning: could not load persisted state"
    dirWritable,        \* whether the overrides directory tree can be written
    envrcWritable,      \* whether os.WriteFile of .envrc succeeds
    direnvOk,           \* whether the command direnv allow succeeds
    editBudget,         \* number of editor sessions that may still change a file
    typeable,           \* the texts the user may leave in an input field
    toggleOrder,        \* history: applied names in the order they were toggled on
    strSeen,            \* history: one remembered result of buildOverrideString
    roundTrip,          \* history: what was saved, and what a load into a fresh map gave
    lastOp              \* history: the operation the last step ran, [op, ok, name, newName]

pvars == <<pc, disk, rootReadable, envrc, overrides, applied, availableList,
           appliedList, overrideStringView, currentPanelIdx, helpOpen, inputOpen,
           deleteOpen, renameOpen, renameTarget, loadWarning, dirWritable,
           envrcWritable, direnvOk, editBudget, typeable>>

hvars == <<toggleOrder, strSeen, roundTrip>>

vars == <<pvars, hvars, lastOp>>

(***************************************************************************)
(* Bounds of the model.                                                    *)
(***************************************************************************)
MaxOverrides == 2
MaxEdits == 1

(***************************************************************************)
(* Characters and strings.                                                 *)
(***************************************************************************)
B64Alphabet ==
    << "A","B","C","D","E","F","G","H","I","J","K","L","M","N","O","P",
       "Q","R","S","T","U","V","W","X","Y","Z","a","b","c","d","e","f",
       "g","h","i","j","k","l","m","n","o","p","q","r","s","t","u","v",
       "w","x","y","z","0","1","2","3","4","5","6","7","8","9","+","/" >>

\* The byte value of a character (ASCII), for the characters the model uses.
Ord(c) ==
    CASE c = "\n" -> 10
      [] c = "\r" -> 13
      [] c = " " -> 32
      [] c = "!" -> 33
      [] c = "\"" -> 34
      [] c = "#" -> 35
      [] c = "'" -> 39
      [] c = "+" -> 43
      [] c = "," -> 44
      [] c = "-" -> 45
      [] c = "." -> 46
      [] c = "/" -> 47
      [] c = ":" -> 58
      [] c = "=" -> 61
      [] c = "@" -> 64
      [] c = "_" -> 95
      [] \E i \in 1..26 : B64Alphabet[i] = c ->
            64 + (CHOOSE i \in 1..26 : B64Alphabet[i] = c)
      [] \E i \in 27..52 : B64Alphabet[i] = c ->
            70 + (CHOOSE i \in 27..52 : B64Alphabet[i] = c)
      [] \E i \in 53..62 : B64Alphabet[i] = c ->
            (CHOOSE i \in 53..62 : B64Alphabet[i] = c) - 5

Charset ==
    { B64Alphabet[i] : i \in 1..64 } \cup
    { "\n", "\r", " ", "!", "\"", "#", "'", ",", "-", ".", ":", "=", "@", "_" }

Chr(b) == CHOOSE c \in Charset : Ord(c) = b

\* The TLA+ string spelled by a text.
RECURSIVE Str(_)
Str(s) ==
    IF s = <<>> THEN ""
    ELSE IF Len(s) = 1 THEN s[1]
    ELSE Str(SubSeq(s, 1, Len(s) \div 2)) \o Str(SubSeq(s, Len(s) \div 2 + 1, Len(s)))

\* Go's string comparison a < b: bytewise lexicographic.
RECURSIVE StrLess(_, _)
StrLess(a, b) ==
    IF b = <<>> THEN FALSE
    ELSE IF a = <<>> THEN TRUE
    ELSE IF a[1] = b[1] THEN StrLess(Tail(a), Tail(b))
    ELSE Ord(a[1]) < Ord(b[1])

\* strings.HasPrefix
HasPrefix(s, p) == Len(s) >= Len(p) /\ SubSeq(s, 1, Len(p)) = p

\* strings.TrimPrefix
TrimPrefix(s, p) == IF HasPrefix(s, p) THEN SubSeq(s, Len(p) + 1, Len(s)) ELSE s

\* strings.Trim(s, cutset): drop leading and trailing characters of cutset.
RECURSIVE TrimLeft(_, _)
TrimLeft(s, cutset) ==
    IF s # <<>> /\ s[1] \in cutset THEN TrimLeft(Tail(s), cutset) ELSE s

RECURSIVE TrimRight(_, _)
TrimRight(s, cutset) ==
    IF s # <<>> /\ s[Len(s)] \in cutset
    THEN TrimRight(SubSeq(s, 1, Len(s) - 1), cutset)
    ELSE s

\* the text as it is, nothing cut
Untrimmed(s, cutset) == s

Trim(s, cutset) == TrimRight(TrimLeft(s, cutset), cutset)

\* strings.TrimSpace, for the white space the model uses.
WhiteSpace == { " ", "\n", "\r" }
TrimSpace(s) == Trim(s, WhiteSpace)

\* strings.Split(s, sep) for a one-character separator: always at least one token.
Positions(s, sep) == SelectSeq([ i \in 1..Len(s) |-> i ], LAMBDA i : s[i] = sep)

Split(s, sep) ==
    LET at == Positions(s, sep)
        n == Len(at)
    IN  [ k \in 1..(n + 1) |->
            SubSeq(s, IF k = 1 THEN 1 ELSE at[k - 1] + 1,
                      IF k = n + 1 THEN Len(s) ELSE at[k] - 1) ]

\* strings.Join(parts, sep)
RECURSIVE Join(_, _)
Join(parts, sep) ==
    IF parts = <<>> THEN <<>>
    ELSE IF Len(parts) = 1 THEN parts[1]
    ELSE parts[1] \o sep \o Join(Tail(parts), sep)

\* filepath.Join(dir, name), as the path below the overrides directory: the
\* Clean of Join drops the empty and the "." elements of name; a name with
\* a ".." element is outside the model.
JoinDir(name) ==
    Join(SelectSeq(Split(name, "/"), LAMBDA e : e # <<>> /\ e # << "." >>), << "/" >>)

\* filepath.Base of such a path: its last element.
Base(path) ==
    LET elems == SelectSeq(Split(path, "/"), LAMBDA e : e # <<>>)
    IN  IF elems = <<>> THEN << "." >> ELSE elems[Len(elems)]

\* strings.ReplaceAll(s, old, new) for a one-character old.
ReplaceAll(s, old, new) == [ i \in 1..Len(s) |-> IF s[i] = old THEN new ELSE s[i] ]

\* bufio.Scanner with ScanLines over the bytes of a file: the lines without
\* their terminators; a trailing carriage return of a line is dropped; a last
\* line without a newline is returned when it is not empty.  The scanner's
\* buffer grows to bufio.MaxScanTokenSize bytes: Scan returns false, with the
\* error bufio.ErrTooLong, at the first line that fills it without a newline.
MaxScanTokenSize == 65536

DropCR(line) ==
    IF line # <<>> /\ line[Len(line)] = "\r" THEN SubSeq(line, 1, Len(line) - 1) ELSE line

\* The lines of the bytes, each up to its newline.
RawLines(bytes) ==
    LET pieces == Split(bytes, "\n")
        n == Len(pieces)
    IN  IF pieces[n] = <<>> THEN SubSeq(pieces, 1, n - 1) ELSE pieces

\* The number of lines Scan returns before it stops.
ScanStop(bytes) ==
    LET whole == RawLines(bytes)
        long == SelectSeq([ k \in 1..Len(whole) |-> k ],
                          LAMBDA k : Len(whole[k]) >= MaxScanTokenSize)
    IN  IF long = <<>> THEN Len(whole) ELSE long[1] - 1

\* scanner.Err() after the loop over Scan has run to its end
ScanErr(bytes) == ScanStop(bytes) < Len(RawLines(bytes))

ScanLines(bytes) ==
    LET whole == RawLines(bytes)
    IN  [ k \in 1..ScanStop(bytes) |-> DropCR(whole[k]) ]

(***************************************************************************)
(* encoding/base64, StdEncoding.                                           *)
(***************************************************************************)
B64Char(v) == B64Alphabet[v + 1]

IsB64Char(c) == \E i \in 1..64 : B64Alphabet[i] = c

B64Val(c) == (CHOOSE i \in 1..64 : B64Alphabet[i] = c) - 1

\* EncodeToString over the bytes of a text: three bytes give four characters,
\* a last group of one or two bytes is padded with "=".
RECURSIVE EncodeBytes(_)
EncodeBytes(bs) ==
    IF bs = <<>> THEN <<>>
    ELSE IF Len(bs) = 1 THEN
        << B64Char(bs[1] \div 4), B64Char((bs[1] % 4) * 16), "=", "=" >>
    ELSE IF Len(bs) = 2 THEN
        << B64Char(bs[1] \div 4),
           B64Char((bs[1] % 4) * 16 + bs[2] \div 16),
           B64Char((bs[2] % 16) * 4), "=" >>
    ELSE
        << B64Char(bs[1] \div 4),
           B64Char((bs[1] % 4) * 16 + bs[2] \div 16),
           B64Char((bs[2] % 16) * 4 + bs[3] \div 64),
           B64Char(bs[3] % 64) >> \o EncodeBytes(SubSeq(bs, 4, Len(bs)))

EncodeToString(s) == EncodeBytes([ i \in 1..Len(s) |-> Ord(s[i]) ])

\* DecodeString: carriage returns and newlines are skipped; the rest must be
\* groups of four alphabet characters, the last one padded with "=" or "==".
\* The result is [ok, bytes].
RECURSIVE DecodeQuads(_)
DecodeQuads(cs) ==
    IF cs = <<>> THEN [ok |-> TRUE, bytes |-> <<>>]
    ELSE IF Len(cs) < 4 THEN [ok |-> FALSE, bytes |-> <<>>]
    ELSE IF ~ (IsB64Char(cs[1]) /\ IsB64Char(cs[2])) THEN [ok |-> FALSE, bytes |-> <<>>]
    ELSE
        LET a == B64Val(cs[1])
            b == B64Val(cs[2])
            b1 == a * 4 + b \div 16
        IN  IF cs[3] = "=" THEN
                IF Len(cs) = 4 /\ cs[4] = "="
                THEN [ok |-> TRUE, bytes |-> << b1 >>]
                ELSE [ok |-> FALSE, bytes |-> <<>>]
            ELSE IF ~ IsB64Char(cs[3]) THEN [ok |-> FALSE, bytes |-> <<>>]
            ELSE
                LET c == B64Val(cs[3])
                    b2 == (b % 16) * 16 + c \div 4
                IN  IF cs[4] = "=" THEN
                        IF Len(cs) = 4
                        THEN [ok |-> TRUE, bytes |-> << b1, b2 >>]
                        ELSE [ok |-> FALSE, bytes |-> <<>>]
                    ELSE IF ~ IsB64Char(cs[4]) THEN [ok |-> FALSE, bytes |-> <<>>]
                    ELSE
                        LET d == B64Val(cs[4])
                            b3 == (c % 4) * 64 + d
                            rest == DecodeQuads(SubSeq(cs, 5, Len(cs)))
                        IN  [ok |-> rest.ok,
                             bytes |-> IF rest.ok THEN << b1, b2, b3 >> \o rest.bytes
                                       ELSE <<>>]

DecodeString(s) ==
    LET r == DecodeQuads(SelectSeq(s, LAMBDA c : c \notin { "\r", "\n" }))
    IN  [ok |-> r.ok,
         text |-> IF r.ok THEN [ i \in 1..Len(r.bytes) |-> Chr(r.bytes[i]) ] ELSE <<>>]

(***************************************************************************)
(* Texts of the program and of the model's inputs.                         *)
(***************************************************************************)
Alpha == << "a","l","p","h","a" >>
Beta == << "b","e","t","a" >>
AlphaBeta == << "a","l","p","h","a",",","b","e","t","a" >>

\* The folder names the model's disk and input fields range over.
Names == { Alpha, Beta }

TypePlus == << "+" >>
TypeEq == << "=" >>
LogLevel == << "l","o","g",".","l","e","v","e","l" >>
DbBlock == << "d","b" >>
ConfigsDb == << "c","o","n","f","i","g","s","/","d","b" >>
CustomModule == << "c","u","s","t","o","m" >>

\* Config.EnvVarName of DefaultConfig
EnvVarName == << "H","Y","D","R","A","_","O","V","E","R","R","I","D","E","S" >>
ExportSp == << "e","x","p","o","r","t"," " >>
\* "export "+app.config.EnvVarName+"="
AppliedPrefix == ExportSp \o EnvVarName \o << "=" >>
\* "export HYDRA_OVERRIDE_STR="
OverrideStrPrefix ==
    ExportSp \o << "H","Y","D","R","A","_","O","V","E","R","R","I","D","E","_","S","T","R","=" >>
\* "overrides/"
OverridesSlash == << "o","v","e","r","r","i","d","e","s","/" >>
\* "override"
DefaultModule == << "o","v","e","r","r","i","d","e" >>
\* "(no overrides applied)"
NoOverridesText ==
    << "(","n","o"," ","o","v","e","r","r","i","d","e","s"," ","a","p","p","l","i","e","d",")" >>


(***************************************************************************)
(* apply.md.  Its text is kept at the level of its frontmatter block:      *)
(* fm = "ok" is a leading ----delimited block that yaml.Unmarshal accepts, *)
(* with the values of the recognised keys; fm = "bad" is a block that      *)
(* yaml.Unmarshal rejects; fm = "none" is a text that does not start with  *)
(* "---"; fm = "absent" stands for a folder without apply.md.              *)
(***************************************************************************)
Doc(fm, type, block, modulePath, module) ==
    [fm |-> fm, type |-> type, block |-> block, module_path |-> modulePath, module |-> module]

\* the applyContent template of createNewOverride
TemplateDoc == Doc("ok", <<>>, <<>>, <<>>, <<>>)
DocPlus == Doc("ok", TypePlus, LogLevel, <<>>, <<>>)
DocEq == Doc("ok", TypeEq, LogLevel, <<>>, <<>>)
DocModule == Doc("ok", TypePlus, DbBlock, ConfigsDb, CustomModule)
DocBad == Doc("bad", <<>>, <<>>, <<>>, <<>>)
NoApply == Doc("absent", <<>>, <<>>, <<>>, <<>>)

\* override.yaml and .envrc: a file that is present has its bytes.
File(bytes) == [present |-> TRUE, bytes |-> bytes]
NoFile == [present |-> FALSE, bytes |-> <<>>]

\* The frontmatter parse of loadOverrides: the fields are set only when the
\* text starts with "---" and yaml.Unmarshal returns no error.
ParseMeta(doc) ==
    IF doc.fm = "ok"
    THEN [ok |-> TRUE, Type |-> doc.type, Block |-> doc.block,
          ModulePath |-> doc.module_path, Module |-> doc.module]
    ELSE [ok |-> FALSE, Type |-> <<>>, Block |-> <<>>, ModulePath |-> <<>>, Module |-> <<>>]

\* A folder of the overrides directory, and the absence of one.
Folder(apply, yaml) == [exists |-> TRUE, apply |-> apply, yaml |-> yaml]
NoDir == [exists |-> FALSE, apply |-> NoApply, yaml |-> NoFile]

\* type Override
Override(name, type, block, modulePath, module, content, applyInfo, folderPath) ==
    [Name |-> name, Type |-> type, Block |-> block, ModulePath |-> modulePath,
     Module |-> module, Content |-> content, ApplyInfo |-> applyInfo,
     FolderPath |-> folderPath]

(***************************************************************************)
(* Sorting.  sort.Slice with less = Name < Name is not stable: the result  *)
(* is any permutation of the slice that is ascending by Name.              *)
(***************************************************************************)
IsSortedByName(s) == \A i \in 1..(Len(s) - 1) : ~ StrLess(s[i + 1].Name, s[i].Name)

IndexPerms(n) ==
    { p \in [1..n -> 1..n] : \A i, j \in 1..n : i # j => p[i] # p[j] }

\* sort.Slice left out: the slice stays as it is.
Unsorted(s) == { s }

SortSlice(s) ==
    { t \in { [ i \in 1..Len(s) |-> s[p[i]] ] : p \in IndexPerms(Len(s)) } :
        IsSortedByName(t) }

\* The names of a set in ascending order: the order of os.ReadDir.
RECURSIVE SortedNames(_)
SortedNames(S) ==
    IF S = {} THEN <<>>
    ELSE LET m == CHOOSE x \in S : \A y \in S \ {x} : StrLess(x, y)
         IN  << m >> \o SortedNames(S \ {m})

(***************************************************************************)
(* The registry queries and the override string.                           *)
(***************************************************************************)
\* getAvailableOverrides, as the indices into app.overrides
AvailableIdx(ovs, app) ==
    SelectSeq([ i \in 1..Len(ovs) |-> i ], LAMBDA i : ovs[i].Name \notin app)

\* getAppliedOverrides, as the indices into app.overrides
AppliedIdx(ovs, app) ==
    SelectSeq([ i \in 1..Len(ovs) |-> i ], LAMBDA i : ovs[i].Name \in app)

\* getAvailableOverrides without its test of app.applied.
AvailableUnfiltered(ovs, app) == ovs

getAvailableOverrides(ovs, app) ==
    LET ix == AvailableIdx(ovs, app) IN [ k \in 1..Len(ix) |-> ovs[ix[k]] ]

getAppliedOverrides(ovs, app) ==
    LET ix == AppliedIdx(ovs, app) IN [ k \in 1..Len(ix) |-> ovs[ix[k]] ]

\* A fragment without the defaults for an empty module_path and module.
FragmentWithoutDefaults(o) ==
    o.Type \o o.ModulePath \o << "@" >> \o o.Block \o << "=" >> \o o.Module

\* One fragment of buildOverrideString: [type][module_path]@[block]=[module]
Fragment(o) ==
    LET modulePath == IF o.ModulePath = <<>> THEN OverridesSlash \o o.Name ELSE o.ModulePath
        module == IF o.Module = <<>> THEN DefaultModule ELSE o.Module
    IN  o.Type \o modulePath \o << "@" >> \o o.Block \o << "=" >> \o module

\* The loop of buildOverrideString over app.overrides, collecting parts.
RECURSIVE BuildParts(_, _)
BuildParts(ovs, app) ==
    IF ovs = <<>> THEN <<>>
    ELSE IF ovs[1].Name \notin app THEN BuildParts(Tail(ovs), app)
    ELSE << Fragment(ovs[1]) >> \o BuildParts(Tail(ovs), app)

\* A builder that ranges over the applied names in the order they were
\* toggled in, and then over the applied overrides it has not met.
BuildInToggleOrder(ovs, app) ==
    LET toggled == SelectSeq(toggleOrder,
                             LAMBDA n : n \in app /\ \E i \in 1..Len(ovs) : ovs[i].Name = n)
        others == SelectSeq(ovs, LAMBDA o : o.Name \in app
                                              /\ \A k \in 1..Len(toggled) : toggled[k] # o.Name)
        first(n) == ovs[CHOOSE i \in 1..Len(ovs) :
                          ovs[i].Name = n /\ \A j \in 1..(i - 1) : ovs[j].Name # n]
    IN  Join([ k \in 1..Len(toggled) |-> Fragment(first(toggled[k])) ]
             \o [ k \in 1..Len(others) |-> Fragment(others[k]) ], << "\n" >>)

buildOverrideString(ovs, app) == Join(BuildParts(ovs, app), << "\n" >>)

(***************************************************************************)
(* The persisted-state codec.                                              *)
(***************************************************************************)
\* The names loadPersistedState adds for a decoded list: the comma-separated
\* tokens, trimmed, without the empty ones.
DecodedNames(text) ==
    LET toks == Split(text, ",")
    IN  { TrimSpace(toks[i]) : i \in 1..Len(toks) } \ { <<>> }

\* The scan of loadPersistedState over the lines of the file, from an Applied
\* map app: the first line with the applied-names prefix decides.
RECURSIVE LoadScan(_, _, _)
LoadScan(lines, app, scanErr) ==
    IF lines = <<>> THEN [applied |-> app, err |-> scanErr]
    ELSE IF HasPrefix(lines[1], AppliedPrefix) THEN
        LET value == Trim(TrimPrefix(lines[1], AppliedPrefix), { "\"", "'" })
            dec == DecodeString(value)
        IN  IF value = <<>> THEN [applied |-> app, err |-> FALSE]
            ELSE IF ~ dec.ok THEN [applied |-> app, err |-> TRUE]
            ELSE [applied |-> app \cup DecodedNames(dec.text), err |-> FALSE]
    ELSE LoadScan(Tail(lines), app, scanErr)

\* loadPersistedState that returns nil where it returns the decoding error
LoadWithoutError(file, app) ==
    IF ~ file.present THEN [applied |-> app, err |-> FALSE]
    ELSE [LoadScan(ScanLines(file.bytes), app, FALSE) EXCEPT !.err = FALSE]

\* loadPersistedState: a missing file is no error.
loadPersistedState(file, app) ==
    IF ~ file.present THEN [applied |-> app, err |-> FALSE]
    ELSE LoadScan(ScanLines(file.bytes), app, ScanErr(file.bytes))

\* The lines savePersistedState keeps from the existing file.
IsManagedLine(line) == HasPrefix(line, AppliedPrefix) \/ HasPrefix(line, OverrideStrPrefix)

KeptLines(file) ==
    IF ~ file.present THEN <<>>
    ELSE SelectSeq(ScanLines(file.bytes), LAMBDA line : ~ IsManagedLine(line))

\* appliedNames of savePersistedState: the applied overrides' names in registry order.
AppliedNames(ovs, app) ==
    LET ix == AppliedIdx(ovs, app) IN [ k \in 1..Len(ix) |-> ovs[ix[k]].Name ]

\* The applied-names line, written when at least one override is applied.
AppliedLine(ovs, app) ==
    AppliedPrefix \o << "\"" >> \o EncodeToString(Join(AppliedNames(ovs, app), << "," >>))
        \o << "\"" >>

\* The override-string line, always written.
OverrideStrLine(ovs, app) ==
    OverrideStrPrefix \o << "\"" >> \o ReplaceAll(buildOverrideString(ovs, app), "\n", " ")
        \o << "\"" >>

\* The bytes of the earlier savePersistedState, which writes the override-string
\* line only next to an applied-names line.
SaveEarlierVersion(file, ovs, app) ==
    LET lines == KeptLines(file)
                 \o (IF AppliedNames(ovs, app) # <<>>
                     THEN << AppliedLine(ovs, app),
                             OverrideStrPrefix \o << "\"" >> \o buildOverrideString(ovs, app)
                                 \o << "\"" >> >>
                     ELSE <<>>)
    IN  Join(lines, << "\n" >>) \o << "\n" >>

\* The bytes savePersistedState hands to os.WriteFile.
savePersistedState(file, ovs, app) ==
    LET lines == KeptLines(file)
                 \o (IF AppliedNames(ovs, app) # <<>> THEN << AppliedLine(ovs, app) >> ELSE <<>>)
                 \o << OverrideStrLine(ovs, app) >>
    IN  Join(lines, << "\n" >>) \o << "\n" >>

(***************************************************************************)
(* The list widgets and the views.                                         *)
(***************************************************************************)
\* refreshAll on one list: Clear, AddItem for each override, and the current
\* item set back to the old index, clamped to the last item.
RefreshList(list, items) ==
    LET n == Len(items)
        idx == IF list.cur >= n THEN n - 1 ELSE list.cur
    IN  [items |-> items, cur |-> IF idx >= 0 THEN idx ELSE 0]

\* The main texts refreshAll adds to the Available list.
ItemNames(list) == [ k \in 1..Len(list) |-> list[k].Name ]

\* The main texts refreshAll adds to the Applied list: marker+o.Name.
TypeReplace == << "r","e","p","l","a","c","e" >>
MarkerGreen == << "[","g","r","e","e","n","]","+","[","-","]"," " >>
MarkerYellow == << "[","y","e","l","l","o","w","]","=","[","-","]"," " >>

AppliedItems(list) ==
    [ k \in 1..Len(list) |->
        (IF list[k].Type = TypeReplace THEN MarkerYellow ELSE MarkerGreen) \o list[k].Name ]

\* updateContentAndInfo: the text of the override-string view.
ViewText(ovs, app) ==
    LET overrideStr == buildOverrideString(ovs, app)
    IN  IF overrideStr # <<>> THEN overrideStr ELSE NoOverridesText

\* getSelectedOverride, as an index into app.overrides; 0 for nil.
getSelectedOverride ==
    LET av == AvailableIdx(overrides, applied)
        ap == AppliedIdx(overrides, applied)
    IN  IF currentPanelIdx = 0 /\ availableList.cur < Len(av) THEN av[availableList.cur + 1]
        ELSE IF currentPanelIdx = 1 /\ appliedList.cur < Len(ap) THEN ap[appliedList.cur + 1]
        ELSE IF Len(overrides) > 0 THEN 1
        ELSE 0

\* The primed lists and view of refreshAll, from the primed registry.
refreshAll ==
    /\ availableList' =
          RefreshList(availableList, ItemNames(getAvailableOverrides(overrides', applied')))
    /\ appliedList' =
          RefreshList(appliedList, AppliedItems(getAppliedOverrides(overrides', applied')))
    /\ overrideStringView' = ViewText(overrides', applied')

(***************************************************************************)
(* The outcomes of the operating-system calls.  They are decided by the    *)
(* disk and by the permissions the program was started with: a read-only   *)
(* overrides tree fails every call that would change it, a read-only       *)
(* .envrc fails os.WriteFile.                                              *)
(***************************************************************************)
\* os.MkdirAll: an existing directory is no error.
MkdirAllOk(name) == disk[name].exists \/ dirWritable

\* os.WriteFile of a file of an existing override folder
WriteFileOk == dirWritable

\* os.RemoveAll of an override folder: a path that does not exist is no error.
RemoveAllOk(path) == ~ disk[path].exists \/ dirWritable

\* Whether savePersistedState returns an error: that of os.WriteFile, or,
\* after the file is written, that of cmd.Run() of direnv allow.  No caller
\* reads it.
SaveError == ~ envrcWritable \/ ~ direnvOk

\* The .envrc after a call of savePersistedState whose os.WriteFile succeeds or fails.
WriteEnvrc ==
    envrc' = IF envrcWritable
             THEN File(savePersistedState(envrc, overrides', applied'))
             ELSE envrc

(***************************************************************************)
(* The initial states: the disk and the .envrc the program is started on.  *)
(***************************************************************************)
Yaml1 == << "l","r",":"," ","1" >>
Yaml2 == << "l","r",":"," ","2" >>
Yaml3 == << "l","r",":"," ","3" >>

\* alpha and beta are overrides.
DiskTwo ==
    [ n \in Names |->
        IF n = Alpha THEN Folder(DocPlus, File(Yaml1)) ELSE Folder(DocEq, File(Yaml2)) ]

\* alpha is an override without a content file; there is no folder beta.
DiskOne ==
    [ n \in Names |-> IF n = Alpha THEN Folder(DocPlus, NoFile) ELSE NoDir ]

InitDisks == { DiskTwo, DiskOne }

\* A user's .envrc: two lines of their own around the two managed lines of an
\* earlier session in which alpha and beta were applied; no final newline.
UserLine1 == << "#"," ","e","n","v" >>
UserLine2 == << "l","a","y","o","u","t"," ","g","o" >>

EnvrcUser ==
    File(Join(<< UserLine1,
            AppliedPrefix \o << "\"" >> \o EncodeToString(Join(<< Alpha, Beta >>, << "," >>))
                \o << "\"" >>,
            OverrideStrPrefix \o << "\"" >> \o << "o","l","d" >> \o << "\"" >>,
            UserLine2 >>, << "\n" >>))

InitEnvrcs == { NoFile, EnvrcUser }

EmptyList == [items |-> <<>>, cur |-> 0]

\* The texts a user leaves in an input field when the field is done.
InputTexts == { Alpha, << " " >> \o Beta \o << " " >>, <<>>, << " " >> }

\* The record of a step that ran none of toggle, create, delete and rename.
NoOp == [op |-> "none", ok |-> TRUE, name |-> <<>>, newName |-> <<>>]

\* The record of a step that ran one of them: ok is whether the operation's
\* first call that can fail succeeded, or, for a toggle, found an item.  The
\* op "enter" records an Enter that ended an input without the operation
\* although the trimmed text was one the operation is meant for.
Op(op, ok, name, newName) == [op |-> op, ok |-> ok, name |-> name, newName |-> newName]

\* No save and load recorded, and no result of buildOverrideString remembered.
NoTrip ==
    [saved |-> FALSE, written |-> FALSE, saveErr |-> FALSE, applied |-> {},
     done |-> FALSE, loaded |-> {}, err |-> FALSE]

NoMark(tracking) ==
    [tracking |-> tracking, marked |-> FALSE, applied |-> {}, order |-> <<>>, text |-> <<>>]

\* The state main() starts from: app := &App{applied: make(map[string]bool)}.
InitApp ==
    /\ overrides = <<>>
    /\ applied = {}
    /\ availableList = EmptyList
    /\ appliedList = EmptyList
    /\ overrideStringView = <<>>
    /\ currentPanelIdx = 0
    /\ helpOpen = FALSE
    /\ inputOpen = FALSE
    /\ deleteOpen = FALSE
    /\ renameOpen = FALSE
    /\ renameTarget = 0
    /\ loadWarning = FALSE

InitHistory ==
    /\ toggleOrder = <<>>
    /\ strSeen = NoMark(FALSE)
    /\ roundTrip = NoTrip
    /\ lastOp = NoOp

\* direnv allow is taken to succeed where the program runs as a whole: every
\* caller of savePersistedState drops its result, so it reaches no state.
Init ==
    /\ pc = "start"
    /\ disk \in InitDisks
    /\ rootReadable \in BOOLEAN
    /\ envrc \in InitEnvrcs
    /\ dirWritable \in BOOLEAN
    /\ envrcWritable \in BOOLEAN
    /\ direnvOk = TRUE
    /\ editBudget = 0
    /\ typeable = InputTexts
    /\ InitApp
    /\ InitHistory

(***************************************************************************)
(* main(): loadOverrides, then loadPersistedState, setupUI and refreshAll. *)
(***************************************************************************)
\* The Override loadOverrides builds for a folder that has an apply.md.
LoadedOverride(name, folder) ==
    LET meta == ParseMeta(folder.apply)
    IN  Override(name, meta.Type, meta.Block, meta.ModulePath, meta.Module,
                 IF folder.yaml.present THEN folder.yaml.bytes ELSE <<>>,
                 folder.apply, JoinDir(name))

\* A load that takes every folder, with or without apply.md
LoadEveryFolder(d) ==
    LET entries == SortedNames({ n \in Names : d[n].exists })
    IN  [ k \in 1..Len(entries) |-> LoadedOverride(entries[k], d[entries[k]]) ]

\* The overrides appended by the loop of loadOverrides, in os.ReadDir order.
LoadedEntries(d) ==
    LET entries == SortedNames({ n \in Names : d[n].exists /\ d[n].apply # NoApply })
    IN  [ k \in 1..Len(entries) |-> LoadedOverride(entries[k], d[entries[k]]) ]

UNCHANGED_Env == UNCHANGED <<dirWritable, envrcWritable, direnvOk, editBudget, typeable>>

UNCHANGED_UI ==
    UNCHANGED <<currentPanelIdx, helpOpen, inputOpen, deleteOpen, renameOpen, renameTarget>>

LoadOverrides ==
    /\ pc = "start"
    /\ IF rootReadable
       THEN /\ overrides' \in SortSlice(LoadedEntries(disk))
            /\ pc' = "loaded"
       ELSE /\ pc' = "exit1"
            /\ UNCHANGED overrides
    /\ UNCHANGED <<disk, rootReadable, envrc, applied, availableList, appliedList,
                   overrideStringView, loadWarning>>
    /\ UNCHANGED_Env
    /\ UNCHANGED_UI
    /\ UNCHANGED hvars
    /\ lastOp' = NoOp

StartUI ==
    /\ pc = "loaded"
    /\ LET r == loadPersistedState(envrc, applied)
       IN  /\ applied' = r.applied
           /\ loadWarning' = r.err
    /\ UNCHANGED overrides
    /\ refreshAll
    /\ pc' = "running"
    /\ UNCHANGED <<disk, rootReadable, envrc>>
    /\ UNCHANGED_Env
    /\ UNCHANGED_UI
    /\ UNCHANGED hvars
    /\ lastOp' = NoOp

(***************************************************************************)
(* The input capture of setupKeybindings.                                  *)
(***************************************************************************)
\* The capture without the branch for the rename input.
CapturesWithoutRename == helpOpen \/ inputOpen \/ deleteOpen

\* A capture whose help branch is missing
CapturesWithoutHelp == inputOpen \/ deleteOpen \/ renameOpen

\* An open overlay keeps the key from the switch of the normal keys.
OverlayCaptures == helpOpen \/ inputOpen \/ deleteOpen \/ renameOpen

\* A switch of the normal keys that is reached under an open overlay too
AnyKey == pc = "running"

\* The switch of the normal keys is reached when no overlay has taken the key.
NormalKey == pc = "running" /\ ~ OverlayCaptures

UNCHANGED_Data ==
    /\ UNCHANGED <<disk, rootReadable, envrc, overrides, applied, loadWarning>>
    /\ UNCHANGED_Env

UNCHANGED_Lists == UNCHANGED <<availableList, appliedList>>

UNCHANGED_Overlays == UNCHANGED <<helpOpen, inputOpen, deleteOpen, renameOpen, renameTarget>>

\* updateContentAndInfo
updateContentAndInfo == overrideStringView' = ViewText(overrides', applied')

\* 'q' or Esc: app.app.Stop()
KeyQuit ==
    /\ NormalKey
    /\ pc' = "stopped"
    /\ UNCHANGED_Data /\ UNCHANGED_Lists /\ UNCHANGED_Overlays
    /\ UNCHANGED <<currentPanelIdx, overrideStringView>>
    /\ UNCHANGED hvars
    /\ lastOp' = NoOp

\* '1', '2': focusPanel(idx); app.panels has two entries
focusPanel(idx) ==
    /\ NormalKey
    /\ idx >= 0 /\ idx < 2
    /\ currentPanelIdx' = idx
    /\ UNCHANGED_Data /\ UNCHANGED_Lists /\ UNCHANGED_Overlays
    /\ updateContentAndInfo
    /\ UNCHANGED pc
    /\ UNCHANGED hvars
    /\ lastOp' = NoOp

\* 'l', Tab, Right
nextPanel ==
    /\ NormalKey
    /\ currentPanelIdx' = (currentPanelIdx + 1) % 2
    /\ UNCHANGED_Data /\ UNCHANGED_Lists /\ UNCHANGED_Overlays
    /\ updateContentAndInfo
    /\ UNCHANGED pc
    /\ UNCHANGED hvars
    /\ lastOp' = NoOp

\* 'h', Shift+Tab, Left
prevPanel ==
    /\ NormalKey
    /\ currentPanelIdx' = (currentPanelIdx - 1 + 2) % 2
    /\ UNCHANGED_Data /\ UNCHANGED_Lists /\ UNCHANGED_Overlays
    /\ updateContentAndInfo
    /\ UNCHANGED pc
    /\ UNCHANGED hvars
    /\ lastOp' = NoOp

\* A move down that wraps from the last item to the first
ListDownWrap(list) ==
    IF list.cur < Len(list.items) - 1 THEN [list EXCEPT !.cur = @ + 1]
    ELSE [list EXCEPT !.cur = 0]

ListDown(list) ==
    IF list.cur < Len(list.items) - 1 THEN [list EXCEPT !.cur = @ + 1] ELSE list

ListUp(list) ==
    IF list.cur > 0 THEN [list EXCEPT !.cur = @ - 1] ELSE list

\* 'j'
cursorDown ==
    /\ NormalKey
    /\ IF currentPanelIdx = 0
       THEN availableList' = ListDown(availableList) /\ UNCHANGED appliedList
       ELSE appliedList' = ListDown(appliedList) /\ UNCHANGED availableList
    /\ UNCHANGED_Data /\ UNCHANGED_Overlays
    /\ updateContentAndInfo
    /\ UNCHANGED <<pc, currentPanelIdx>>
    /\ UNCHANGED hvars
    /\ lastOp' = NoOp

\* 'k'
cursorUp ==
    /\ NormalKey
    /\ IF currentPanelIdx = 0
       THEN availableList' = ListUp(availableList) /\ UNCHANGED appliedList
       ELSE appliedList' = ListUp(appliedList) /\ UNCHANGED availableList
    /\ UNCHANGED_Data /\ UNCHANGED_Overlays
    /\ updateContentAndInfo
    /\ UNCHANGED <<pc, currentPanelIdx>>
    /\ UNCHANGED hvars
    /\ lastOp' = NoOp

\* toggleOverride that takes the first item of the focused list, not the
\* item under the cursor
ToggleFirstItem ==
    IF currentPanelIdx = 0
    THEN applied \cup { getAvailableOverrides(overrides, applied)[1].Name }
    ELSE applied \ { getAppliedOverrides(overrides, applied)[1].Name }

\* The Applied map after toggleOverride: the selected available override is
\* applied, the selected applied override is removed.
ToggledApplied ==
    LET av == getAvailableOverrides(overrides, applied)
        ap == getAppliedOverrides(overrides, applied)
    IN  IF currentPanelIdx = 0
        THEN applied \cup { av[availableList.cur + 1].Name }
        ELSE applied \ { ap[appliedList.cur + 1].Name }

\* override.Name of toggleOverride
ToggledName ==
    IF currentPanelIdx = 0
    THEN getAvailableOverrides(overrides, applied)[availableList.cur + 1].Name
    ELSE getAppliedOverrides(overrides, applied)[appliedList.cur + 1].Name

\* Whether toggleOverride finds an item under the cursor of the focused panel.
ToggleInRange ==
    IF currentPanelIdx = 0
    THEN availableList.cur < Len(getAvailableOverrides(overrides, applied))
    ELSE appliedList.cur < Len(getAppliedOverrides(overrides, applied))

\* The history of a toggle, kept when the initial state switches it on: the
\* applied names in the order they were toggled in, and one remembered result
\* of buildOverrideString with the Applied map and the order it was built for.
TrackToggle ==
    IF ~ strSeen.tracking \/ ~ ToggleInRange
    THEN UNCHANGED hvars
    ELSE /\ toggleOrder' =
              IF currentPanelIdx = 0
              THEN Append(toggleOrder, getAvailableOverrides(overrides, applied)
                                           [availableList.cur + 1].Name)
              ELSE SelectSeq(toggleOrder, LAMBDA n : n \in applied')
         /\ \E mark \in BOOLEAN :
               strSeen' = IF mark /\ ~ strSeen.marked
                          THEN [tracking |-> TRUE, marked |-> TRUE, applied |-> applied',
                                order |-> toggleOrder',
                                text |-> buildOverrideString(overrides', applied')]
                          ELSE strSeen
         /\ UNCHANGED roundTrip

\* toggleOverride that saves and refreshes whether or not it found an item.
ToggleSavesAlways ==
    /\ NormalKey
    /\ applied' = IF ToggleInRange THEN ToggledApplied ELSE applied
    /\ UNCHANGED overrides
    /\ WriteEnvrc
    /\ refreshAll
    /\ UNCHANGED <<pc, disk, rootReadable, loadWarning, currentPanelIdx>>
    /\ UNCHANGED_Env
    /\ UNCHANGED_Overlays
    /\ TrackToggle
    /\ lastOp' = IF ToggleInRange
                 THEN Op("toggle", TRUE, ToggledName, <<>>)
                 ELSE Op("toggle", FALSE, <<>>, <<>>)

\* ' ', Enter
toggleOverride ==
    /\ NormalKey
    /\ IF ToggleInRange
       THEN /\ applied' = ToggledApplied
            /\ UNCHANGED overrides
            /\ WriteEnvrc
            /\ refreshAll
       ELSE UNCHANGED <<applied, overrides, envrc, availableList, appliedList,
                        overrideStringView>>
    /\ UNCHANGED <<pc, disk, rootReadable, loadWarning, currentPanelIdx>>
    /\ UNCHANGED_Env
    /\ UNCHANGED_Overlays
    /\ TrackToggle
    /\ lastOp' = IF ToggleInRange
                 THEN Op("toggle", TRUE, ToggledName, <<>>)
                 ELSE Op("toggle", FALSE, <<>>, <<>>)

(***************************************************************************)
(* The overlays.                                                           *)
(***************************************************************************)
\* '?'
showHelp ==
    /\ NormalKey
    /\ helpOpen' = TRUE
    /\ UNCHANGED_Data /\ UNCHANGED_Lists
    /\ UNCHANGED <<pc, currentPanelIdx, overrideStringView, inputOpen, deleteOpen,
                   renameOpen, renameTarget>>
    /\ UNCHANGED hvars
    /\ lastOp' = NoOp

\* A help overlay whose 'q' stops the application
HelpQuitStops ==
    /\ pc = "running"
    /\ helpOpen
    /\ pc' = "stopped"
    /\ UNCHANGED_Data /\ UNCHANGED_Lists /\ UNCHANGED_Overlays
    /\ UNCHANGED <<currentPanelIdx, overrideStringView>>
    /\ UNCHANGED hvars
    /\ lastOp' = NoOp

\* Esc or 'q' while the help is open: closeHelp
closeHelp ==
    /\ pc = "running"
    /\ helpOpen
    /\ helpOpen' = FALSE
    /\ UNCHANGED_Data /\ UNCHANGED_Lists
    /\ UNCHANGED <<pc, currentPanelIdx, overrideStringView, inputOpen, deleteOpen,
                   renameOpen, renameTarget>>
    /\ UNCHANGED hvars
    /\ lastOp' = NoOp

\* Any other key while the help is open: the capture returns the event, which
\* goes to the focused help text view.
helpOtherKey ==
    /\ pc = "running"
    /\ helpOpen
    /\ UNCHANGED_Data /\ UNCHANGED_Lists /\ UNCHANGED_Overlays
    /\ UNCHANGED <<pc, currentPanelIdx, overrideStringView>>
    /\ UNCHANGED hvars
    /\ lastOp' = NoOp

\* 'n'
showNewOverrideInput ==
    /\ NormalKey
    /\ inputOpen' = TRUE
    /\ UNCHANGED_Data /\ UNCHANGED_Lists
    /\ UNCHANGED <<pc, currentPanelIdx, overrideStringView, helpOpen, deleteOpen,
                   renameOpen, renameTarget>>
    /\ UNCHANGED hvars
    /\ lastOp' = NoOp

\* The keys that end an input field: Enter confirms, the others only close.
DoneKeys == { "Enter", "Tab" }

\* createNewOverride(name)
createNewOverride(name) ==
    IF ~ MkdirAllOk(JoinDir(name))
    THEN UNCHANGED <<disk, overrides, availableList, appliedList, overrideStringView>>
    ELSE LET overridePath == JoinDir(name)
             old == disk[overridePath]
             override == Override(name, <<>>, <<>>, <<>>, <<>>, <<>>, TemplateDoc,
                                  overridePath)
         IN  /\ disk' = [disk EXCEPT ![overridePath] =
                            Folder(IF WriteFileOk THEN TemplateDoc ELSE old.apply,
                                   IF WriteFileOk THEN File(<<>>) ELSE old.yaml)]
             /\ overrides' \in SortSlice(Append(overrides, override))
             /\ refreshAll

\* closeInput
closeInput == inputOpen' = FALSE

\* Esc while the new-override input is open
inputEscape ==
    /\ pc = "running"
    /\ ~ helpOpen /\ inputOpen
    /\ closeInput
    /\ UNCHANGED_Data /\ UNCHANGED_Lists
    /\ UNCHANGED <<pc, currentPanelIdx, overrideStringView, helpOpen, deleteOpen,
                   renameOpen, renameTarget>>
    /\ UNCHANGED hvars
    /\ lastOp' = NoOp

\* A DoneFunc that creates nothing
CreateNever(name) == FALSE

\* Whether the DoneFunc of the new-override input calls createNewOverride
\* for the trimmed text, on Enter.
CreateWanted(name) == name # <<>>

\* The DoneFunc of the input field of showNewOverrideInput.
inputDone ==
    /\ pc = "running"
    /\ ~ helpOpen /\ inputOpen
    /\ \E key \in DoneKeys, text \in typeable :
          LET name == TrimSpace(text)
          IN  IF key = "Enter" /\ CreateWanted(name)
              THEN /\ Len(overrides) < MaxOverrides
                   /\ UNCHANGED applied
                   /\ createNewOverride(name)
                   /\ lastOp' = Op("create", MkdirAllOk(JoinDir(name)), name, <<>>)
              ELSE /\ UNCHANGED <<disk, overrides, applied, availableList, appliedList,
                                  overrideStringView>>
                   /\ lastOp' = IF key = "Enter" /\ name # <<>>
                                THEN Op("enter", TRUE, <<>>, <<>>)
                                ELSE NoOp
    /\ closeInput
    /\ UNCHANGED <<pc, rootReadable, envrc, loadWarning, currentPanelIdx, helpOpen,
                   deleteOpen, renameOpen, renameTarget>>
    /\ UNCHANGED_Env
    /\ UNCHANGED hvars

\* 'd'
showDeleteConfirmation ==
    /\ NormalKey
    /\ IF getSelectedOverride # 0 THEN deleteOpen' = TRUE ELSE UNCHANGED deleteOpen
    /\ UNCHANGED_Data /\ UNCHANGED_Lists
    /\ UNCHANGED <<pc, currentPanelIdx, overrideStringView, helpOpen, inputOpen,
                   renameOpen, renameTarget>>
    /\ UNCHANGED hvars
    /\ lastOp' = NoOp

\* A cancel of the delete confirmation that also empties app.applied
CancelClearsApplied ==
    /\ pc = "running"
    /\ ~ helpOpen /\ ~ inputOpen /\ deleteOpen
    /\ deleteOpen' = FALSE
    /\ applied' = {}
    /\ UNCHANGED <<disk, rootReadable, envrc, overrides, loadWarning>>
    /\ UNCHANGED_Env /\ UNCHANGED_Lists
    /\ UNCHANGED <<pc, currentPanelIdx, overrideStringView, helpOpen, inputOpen,
                   renameOpen, renameTarget>>
    /\ UNCHANGED hvars
    /\ lastOp' = NoOp

\* closeDeleteConfirmation, on Esc or 'q'
deleteCancel ==
    /\ pc = "running"
    /\ ~ helpOpen /\ ~ inputOpen /\ deleteOpen
    /\ deleteOpen' = FALSE
    /\ UNCHANGED_Data /\ UNCHANGED_Lists
    /\ UNCHANGED <<pc, currentPanelIdx, overrideStringView, helpOpen, inputOpen,
                   renameOpen, renameTarget>>
    /\ UNCHANGED hvars
    /\ lastOp' = NoOp

\* app.overrides without its first element of the given name.
RemoveFirstNamed(ovs, name) ==
    IF \E i \in 1..Len(ovs) : ovs[i].Name = name
    THEN LET i == CHOOSE j \in 1..Len(ovs) :
                     /\ ovs[j].Name = name
                     /\ \A k \in 1..(j - 1) : ovs[k].Name # name
         IN  SubSeq(ovs, 1, i - 1) \o SubSeq(ovs, i + 1, Len(ovs))
    ELSE ovs

\* deleteSelectedOverride
deleteSelectedOverride ==
    LET sel == getSelectedOverride
    IN  IF sel = 0
        THEN UNCHANGED <<disk, envrc, overrides, applied, availableList, appliedList,
                         overrideStringView>>
        ELSE LET selected == overrides[sel]
             IN  /\ applied' = applied \ { selected.Name }
                 /\ overrides' = RemoveFirstNamed(overrides, selected.Name)
                 /\ disk' = IF RemoveAllOk(selected.FolderPath)
                            THEN [disk EXCEPT ![selected.FolderPath] = NoDir]
                            ELSE disk
                 /\ WriteEnvrc
                 /\ refreshAll

\* Enter while the delete confirmation is open
deleteConfirm ==
    /\ pc = "running"
    /\ ~ helpOpen /\ ~ inputOpen /\ deleteOpen
    /\ deleteSelectedOverride
    /\ deleteOpen' = FALSE
    /\ UNCHANGED <<pc, rootReadable, loadWarning, currentPanelIdx, helpOpen, inputOpen,
                   renameOpen, renameTarget>>
    /\ UNCHANGED_Env
    /\ UNCHANGED hvars
    /\ lastOp' = IF getSelectedOverride = 0 THEN NoOp
                 ELSE LET selected == overrides[getSelectedOverride]
                      IN  Op("delete", RemoveAllOk(selected.FolderPath), selected.Name, <<>>)

\* 'r'
showRenameInput ==
    /\ NormalKey
    /\ IF getSelectedOverride # 0
       THEN renameOpen' = TRUE /\ renameTarget' = getSelectedOverride
       ELSE UNCHANGED <<renameOpen, renameTarget>>
    /\ UNCHANGED_Data /\ UNCHANGED_Lists
    /\ UNCHANGED <<pc, currentPanelIdx, overrideStringView, helpOpen, inputOpen, deleteOpen>>
    /\ UNCHANGED hvars
    /\ lastOp' = NoOp

\* closeRenameInput that leaves app.renameTarget set.
CloseKeepsTarget == renameOpen' = FALSE /\ UNCHANGED renameTarget

\* closeRenameInput
closeRenameInput == renameOpen' = FALSE /\ renameTarget' = 0

\* Esc while the rename input is open
renameEscape ==
    /\ pc = "running"
    /\ ~ helpOpen /\ ~ inputOpen /\ ~ deleteOpen /\ renameOpen
    /\ closeRenameInput
    /\ UNCHANGED_Data /\ UNCHANGED_Lists
    /\ UNCHANGED <<pc, currentPanelIdx, overrideStringView, helpOpen, inputOpen, deleteOpen>>
    /\ UNCHANGED hvars
    /\ lastOp' = NoOp

\* os.Rename(oldPath, newPath) of override folders: the old folder exists and
\* the new path is free or an empty directory.
RenameOk(oldPath, newPath) ==
    /\ dirWritable
    /\ disk[oldPath].exists
    /\ \/ ~ disk[newPath].exists
       \/ disk[newPath] = Folder(NoApply, NoFile)

\* renameSelectedOverride(newName) without the return on the error of os.Rename
RenameIgnoringError(newName) ==
    IF renameTarget = 0
    THEN UNCHANGED <<disk, envrc, overrides, applied, availableList, appliedList,
                     overrideStringView>>
    ELSE LET oldName == overrides[renameTarget].Name
             oldPath == overrides[renameTarget].FolderPath
             renamed == [overrides EXCEPT ![renameTarget].Name = newName,
                                          ![renameTarget].FolderPath = newName]
         IN  /\ disk' = IF RenameOk(oldPath, newName)
                        THEN [disk EXCEPT ![oldPath] = NoDir, ![newName] = disk[oldPath]]
                        ELSE disk
             /\ applied' = IF oldName \in applied
                           THEN (applied \ { oldName }) \cup { newName }
                           ELSE applied
             /\ overrides' \in SortSlice(renamed)
             /\ WriteEnvrc
             /\ refreshAll

\* renameSelectedOverride(newName)
renameSelectedOverride(newName) ==
    IF renameTarget = 0 \/ ~ RenameOk(overrides[renameTarget].FolderPath, JoinDir(newName))
    THEN UNCHANGED <<disk, envrc, overrides, applied, availableList, appliedList,
                     overrideStringView>>
    ELSE LET oldName == overrides[renameTarget].Name
             oldPath == overrides[renameTarget].FolderPath
             newPath == JoinDir(newName)
             renamed == [overrides EXCEPT ![renameTarget].Name = newName,
                                          ![renameTarget].FolderPath = newPath]
         IN  /\ disk' = [disk EXCEPT ![oldPath] = NoDir, ![newPath] = disk[oldPath]]
             /\ applied' = IF oldName \in applied
                           THEN (applied \ { oldName }) \cup { newName }
                           ELSE applied
             /\ overrides' \in SortSlice(renamed)
             /\ WriteEnvrc
             /\ refreshAll

\* A DoneFunc that renames for any non-empty text, the target's own name too
RenameAnyNonEmpty(newName) == newName # <<>>

\* Whether the DoneFunc of the rename input calls renameSelectedOverride for
\* the trimmed text, on Enter.
RenameWanted(newName) == newName # <<>> /\ newName # overrides[renameTarget].Name

\* The DoneFunc of the input field of showRenameInput.
renameDone ==
    /\ pc = "running"
    /\ ~ helpOpen /\ ~ inputOpen /\ ~ deleteOpen /\ renameOpen
    /\ \E key \in DoneKeys, text \in typeable :
          LET newName == TrimSpace(text)
          IN  IF key = "Enter" /\ RenameWanted(newName)
              THEN /\ renameSelectedOverride(newName)
                   /\ lastOp' = Op("rename",
                                   RenameOk(overrides[renameTarget].FolderPath,
                                            JoinDir(newName)),
                                   overrides[renameTarget].Name, newName)
              ELSE /\ UNCHANGED <<disk, envrc, overrides, applied, availableList, appliedList,
                                  overrideStringView>>
                   /\ lastOp' = IF /\ key = "Enter"
                                   /\ newName # <<>>
                                   /\ newName # overrides[renameTarget].Name
                                THEN Op("enter", TRUE, <<>>, <<>>)
                                ELSE NoOp
    /\ closeRenameInput
    /\ UNCHANGED <<pc, rootReadable, loadWarning, currentPanelIdx, helpOpen, inputOpen,
                   deleteOpen>>
    /\ UNCHANGED_Env
    /\ UNCHANGED hvars

(***************************************************************************)
(* The external editor.                                                    *)
(***************************************************************************)
\* What an editor session may leave in apply.md and in override.yaml.
EditDocs == { DocModule, DocBad }
EditYamls == { Yaml3 }

\* The contents an editor session can leave in a file: what it held, or, when
\* the tree is writable, one of the edited contents.
EditorResults(edited, old) ==
    IF dirWritable /\ editBudget > 0 THEN edited \cup { old } ELSE { old }

\* A reload that moves the overrides of that name to the front
ReloadToFront(ovs, name, d) ==
    SelectSeq(ovs, LAMBDA o : o.Name = name) \o SelectSeq(ovs, LAMBDA o : o.Name # name)

\* reloadOverride(name) on the first override of that name, from the disk d.
reloadOverride(ovs, name, d) ==
    IF \E i \in 1..Len(ovs) : ovs[i].Name = name
    THEN LET i == CHOOSE j \in 1..Len(ovs) :
                     /\ ovs[j].Name = name
                     /\ \A k \in 1..(j - 1) : ovs[k].Name # name
             o == ovs[i]
             folder == d[o.FolderPath]
             hasApply == folder.exists /\ folder.apply # NoApply
             hasYaml == folder.exists /\ folder.yaml.present
             meta == ParseMeta(folder.apply)
             o1 == IF hasApply
                   THEN [o EXCEPT !.ApplyInfo = folder.apply,
                                  !.Type = IF meta.ok THEN meta.Type ELSE @,
                                  !.Block = IF meta.ok THEN meta.Block ELSE @]
                   ELSE o
             o2 == IF hasYaml THEN [o1 EXCEPT !.Content = folder.yaml.bytes] ELSE o1
         IN  [ovs EXCEPT ![i] = o2]
    ELSE ovs

\* 'e' (apply.md) and 'E' (override.yaml): openInEditor(filename)
openInEditor(filename) ==
    /\ NormalKey
    /\ LET sel == getSelectedOverride
       IN  IF sel = 0
           THEN UNCHANGED <<disk, overrides, overrideStringView, editBudget>>
           ELSE LET selected == overrides[sel]
                    folder == disk[selected.FolderPath]
                    exists == /\ folder.exists
                              /\ IF filename = "apply.md" THEN folder.apply # NoApply
                                 ELSE folder.yaml.present
                IN  IF ~ exists
                    THEN UNCHANGED <<disk, overrides, overrideStringView, editBudget>>
                    ELSE /\ IF filename = "apply.md"
                            THEN \E new \in EditorResults(EditDocs, folder.apply) :
                                    disk' = [disk EXCEPT ![selected.FolderPath] =
                                                Folder(new, folder.yaml)]
                            ELSE \E new \in EditorResults(EditYamls, folder.yaml.bytes) :
                                    disk' = [disk EXCEPT ![selected.FolderPath] =
                                                Folder(folder.apply, File(new))]
                         /\ editBudget' = IF disk' = disk THEN editBudget ELSE editBudget - 1
                         /\ overrides' = reloadOverride(overrides, selected.Name, disk')
                         /\ overrideStringView' = ViewText(overrides', applied)
    /\ UNCHANGED <<pc, rootReadable, envrc, applied, loadWarning, currentPanelIdx,
                   dirWritable, envrcWritable, direnvOk, typeable>>
    /\ UNCHANGED_Lists /\ UNCHANGED_Overlays
    /\ UNCHANGED hvars
    /\ lastOp' = NoOp

(***************************************************************************)
(* The program.                                                            *)
(***************************************************************************)
Next ==
    \/ LoadOverrides
    \/ StartUI
    \/ KeyQuit
    \/ \E idx \in 0..1 : focusPanel(idx)
    \/ nextPanel
    \/ prevPanel
    \/ cursorDown
    \/ cursorUp
    \/ toggleOverride
    \/ \E filename \in { "apply.md", "override.yaml" } : openInEditor(filename)
    \/ showHelp
    \/ closeHelp
    \/ helpOtherKey
    \/ showNewOverrideInput
    \/ inputEscape
    \/ inputDone
    \/ showDeleteConfirmation
    \/ deleteCancel
    \/ deleteConfirm
    \/ showRenameInput
    \/ renameEscape
    \/ renameDone

Spec == Init /\ [][Next]_vars

\* The program started on two overrides and no .envrc, with a user who
\* changes files in the editor, in up to MaxEdits sessions.
InitEdit ==
    /\ pc = "start"
    /\ disk = DiskTwo
    /\ rootReadable = TRUE
    /\ envrc = NoFile
    /\ dirWritable = TRUE
    /\ envrcWritable = TRUE
    /\ direnvOk = TRUE
    /\ editBudget = MaxEdits
    /\ typeable = InputTexts
    /\ InitApp
    /\ InitHistory

SpecEdit == InitEdit /\ [][Next]_vars

(***************************************************************************)
(* The override-string builder on its own: the program is running on a     *)
(* registry drawn from a pool of overrides, nothing is applied, and the    *)
(* user moves the cursor and toggles.                                      *)
(***************************************************************************)
OvAlpha == Override(Alpha, TypePlus, LogLevel, <<>>, <<>>, Yaml1, DocPlus, Alpha)
OvAlphaNew == Override(Alpha, <<>>, <<>>, <<>>, <<>>, <<>>, TemplateDoc, Alpha)
OvBeta == Override(Beta, TypeEq, LogLevel, <<>>, <<>>, Yaml2, DocEq, Beta)
OvBetaPath ==
    Override(Beta, TypePlus, DbBlock, ConfigsDb, <<>>, <<>>,
             Doc("ok", TypePlus, DbBlock, ConfigsDb, <<>>), Beta)
OvAlphaBeta ==
    Override(AlphaBeta, TypePlus, DbBlock, ConfigsDb, CustomModule, <<>>, DocModule, AlphaBeta)

\* The registry loadOverrides builds for a set of overrides of different names.
RegistryOf(T) ==
    LET names == SortedNames({ o.Name : o \in T })
    IN  [ k \in 1..Len(names) |-> CHOOSE o \in T : o.Name = names[k] ]

Registries(pool) ==
    { RegistryOf(T) :
        T \in { U \in SUBSET pool :
                  /\ Cardinality(U) <= MaxOverrides
                  /\ \A o1, o2 \in U : o1.Name = o2.Name => o1 = o2 } }

BuilderPool == { OvAlpha, OvAlphaNew, OvBeta, OvBetaPath, OvAlphaBeta }

\* The running program after refreshAll, with no overlay open.
InitRunning ==
    /\ availableList =
          RefreshList(EmptyList, ItemNames(getAvailableOverrides(overrides, applied)))
    /\ appliedList =
          RefreshList(EmptyList, AppliedItems(getAppliedOverrides(overrides, applied)))
    /\ overrideStringView = ViewText(overrides, applied)
    /\ currentPanelIdx = 0
    /\ helpOpen = FALSE
    /\ inputOpen = FALSE
    /\ deleteOpen = FALSE
    /\ renameOpen = FALSE
    /\ renameTarget = 0
    /\ loadWarning = FALSE

InitBuilder ==
    /\ pc = "running"
    /\ disk = DiskTwo
    /\ rootReadable = TRUE
    /\ envrc = NoFile
    /\ dirWritable = TRUE
    /\ envrcWritable = TRUE
    /\ direnvOk = TRUE
    /\ editBudget = 0
    /\ typeable = InputTexts
    /\ toggleOrder = <<>>
    /\ strSeen = NoMark(TRUE)
    /\ roundTrip = NoTrip
    /\ lastOp = NoOp
    /\ overrides \in Registries(BuilderPool) \ { <<>> }
    /\ applied = {}
    /\ InitRunning

NextBuilder ==
    \/ toggleOverride
    \/ cursorDown
    \/ cursorUp
    \/ nextPanel
    \/ prevPanel
    \/ \E idx \in 0..1 : focusPanel(idx)

SpecBuilder == InitBuilder /\ [][NextBuilder]_vars

(***************************************************************************)
(* The persisted-state codec on its own: savePersistedState on a registry, *)
(* an Applied map and an existing .envrc drawn from bounded sets, then     *)
(* loadPersistedState of the file into an empty Applied map.               *)
(***************************************************************************)
CodecPool == { OvAlpha, OvAlphaBeta, OvBeta }

CodecNames == { o.Name : o \in CodecPool }

\* The file the program leaves when alpha and beta are applied, with its
\* final newline.
EnvrcManaged ==
    File(savePersistedState(NoFile, << OvAlpha, OvBeta >>, { Alpha, Beta }))

\* A file written with carriage returns before its newlines.
EnvrcCRLF ==
    File(UserLine1 \o << "\r", "\n" >> \o OverrideStrPrefix \o << "\"", "\"", "\r", "\n" >>
         \o UserLine2 \o << "\r", "\n" >>)

\* A file whose second line fills the scanner's buffer.
EnvrcLong ==
    File(UserLine1 \o << "\n" >> \o [ i \in 1..MaxScanTokenSize |-> "x" ] \o << "\n" >>
         \o UserLine2 \o << "\n" >>)

CodecFiles == { NoFile, EnvrcUser, EnvrcManaged, EnvrcCRLF, EnvrcLong }

InitCodec ==
    /\ pc = "save"
    /\ disk = DiskTwo
    /\ rootReadable = TRUE
    /\ envrc \in CodecFiles
    /\ dirWritable = TRUE
    /\ envrcWritable \in BOOLEAN
    /\ direnvOk \in BOOLEAN
    /\ editBudget = 0
    /\ typeable = InputTexts
    /\ toggleOrder = <<>>
    /\ strSeen = NoMark(FALSE)
    /\ roundTrip = NoTrip
    /\ lastOp = NoOp
    /\ overrides \in Registries(CodecPool)
    /\ applied \in SUBSET CodecNames
    /\ InitRunning

UNCHANGED_Codec ==
    /\ UNCHANGED <<disk, rootReadable, overrides, availableList, appliedList,
                   overrideStringView, toggleOrder, strSeen, lastOp>>
    /\ UNCHANGED_Env
    /\ UNCHANGED_UI

\* savePersistedState()
CodecSave ==
    /\ pc = "save"
    /\ UNCHANGED <<overrides, applied>>
    /\ WriteEnvrc
    /\ roundTrip' = [NoTrip EXCEPT !.saved = TRUE, !.written = envrcWritable,
                                   !.saveErr = SaveError, !.applied = applied]
    /\ pc' = "load"
    /\ UNCHANGED loadWarning
    /\ UNCHANGED_Codec

\* app.applied = make(map[string]bool); loadPersistedState()
CodecLoad ==
    /\ pc = "load"
    /\ LET r == loadPersistedState(envrc, {})
       IN  /\ applied' = r.applied
           /\ loadWarning' = r.err
           /\ roundTrip' = [roundTrip EXCEPT !.done = TRUE, !.loaded = r.applied,
                                             !.err = r.err]
    /\ pc' = "compared"
    /\ UNCHANGED envrc
    /\ UNCHANGED_Codec

NextCodec ==
    \/ CodecSave
    \/ CodecLoad

SpecCodec == InitCodec /\ [][NextCodec]_vars

(***************************************************************************)
(* The start of the program on two overrides and a .envrc whose            *)
(* applied-names line is missing, empty, undecodable or good.              *)
(***************************************************************************)
\* An applied-names line with an empty value, before a line with a good one.
EnvrcEmptyValue ==
    File(Join(<< UserLine1,
            AppliedPrefix \o << "\"", "\"" >>,
            AppliedPrefix \o << "\"" >> \o EncodeToString(Alpha) \o << "\"" >> >>,
          << "\n" >>) \o << "\n" >>)

\* An applied-names line whose value is the base64 of alpha,beta without its
\* padding, before a line with a good value.
EnvrcCorrupt ==
    File(Join(<< UserLine1,
            AppliedPrefix \o << "\"" >>
                \o << "Y","W","x","w","a","G","E","s","Y","m","V","0","Y","Q" >> \o << "\"" >>,
            AppliedPrefix \o << "\"" >> \o EncodeToString(Alpha) \o << "\"" >> >>,
          << "\n" >>) \o << "\n" >>)

InitStartup ==
    /\ pc = "start"
    /\ disk = DiskTwo
    /\ rootReadable = TRUE
    /\ envrc \in { NoFile, EnvrcEmptyValue, EnvrcCorrupt, EnvrcUser }
    /\ dirWritable = TRUE
    /\ envrcWritable = TRUE
    /\ direnvOk = TRUE
    /\ editBudget = 0
    /\ typeable = InputTexts
    /\ InitApp
    /\ InitHistory

\* The start, then the keys that move, toggle and quit.
NextStartup ==
    \/ LoadOverrides
    \/ StartUI
    \/ toggleOverride
    \/ cursorDown
    \/ cursorUp
    \/ nextPanel
    \/ prevPanel
    \/ KeyQuit

SpecStartup == InitStartup /\ [][NextStartup]_vars

(***************************************************************************)
(* The load on its own: the program is started on an overrides directory   *)
(* whose folders are drawn from a pool that has a folder with override.yaml*)
(* and no apply.md and folders whose frontmatter does not parse.           *)
(***************************************************************************)
LoadFolders ==
    { NoDir,
      Folder(DocPlus, File(Yaml1)),
      Folder(DocEq, NoFile),
      Folder(NoApply, File(Yaml2)),
      Folder(DocBad, File(Yaml1)),
      Folder(DocBad, NoFile) }

InitLoad ==
    /\ pc = "start"
    /\ disk \in [Names -> LoadFolders]
    /\ rootReadable \in BOOLEAN
    /\ envrc \in InitEnvrcs
    /\ dirWritable = TRUE
    /\ envrcWritable = TRUE
    /\ direnvOk = TRUE
    /\ editBudget = 0
    /\ typeable = InputTexts
    /\ InitApp
    /\ InitHistory

NextLoad ==
    \/ LoadOverrides
    \/ StartUI

SpecLoad == InitLoad /\ [][NextLoad]_vars

(***************************************************************************)
(* The editor on its own: the program started where everything can be      *)
(* written, with a user who moves, toggles, opens the help and the rename  *)
(* input, and runs the editor at most MaxEdits times with a change.        *)
(***************************************************************************)
InitEditor ==
    /\ pc = "start"
    /\ disk \in InitDisks
    /\ rootReadable = TRUE
    /\ envrc \in InitEnvrcs
    /\ dirWritable = TRUE
    /\ envrcWritable = TRUE
    /\ direnvOk = TRUE
    /\ editBudget = MaxEdits
    /\ typeable = InputTexts
    /\ InitApp
    /\ InitHistory

NextEditor ==
    \/ LoadOverrides
    \/ StartUI
    \/ nextPanel
    \/ cursorDown
    \/ cursorUp
    \/ toggleOverride
    \/ \E filename \in { "apply.md", "override.yaml" } : openInEditor(filename)
    \/ showHelp
    \/ closeHelp
    \/ showRenameInput
    \/ renameEscape

SpecEditor == InitEditor /\ [][NextEditor]_vars

(***************************************************************************)
(* The program where every write fails: the overrides tree and .envrc are  *)
(* read-only.                                                              *)
(***************************************************************************)
InitReadOnly ==
    /\ pc = "start"
    /\ disk = DiskTwo
    /\ rootReadable = TRUE
    /\ envrc = EnvrcUser
    /\ dirWritable = FALSE
    /\ envrcWritable = FALSE
    /\ direnvOk = TRUE
    /\ editBudget = 0
    /\ typeable = InputTexts
    /\ InitApp
    /\ InitHistory

SpecReadOnly == InitReadOnly /\ [][Next]_vars

(***************************************************************************)
(* Names with a path separator: the program started on alpha alone, with a *)
(* user who creates, renames and deletes and may end a name with "/".      *)
(***************************************************************************)
SlashTexts == { Alpha \o << "/" >>, Beta \o << "/" >> }

InitPaths ==
    /\ pc = "start"
    /\ disk = DiskOne
    /\ rootReadable = TRUE
    /\ envrc = NoFile
    /\ dirWritable = TRUE
    /\ envrcWritable = TRUE
    /\ direnvOk = TRUE
    /\ editBudget = 0
    /\ typeable = InputTexts \cup SlashTexts
    /\ InitApp
    /\ InitHistory

NextPaths ==
    \/ LoadOverrides
    \/ StartUI
    \/ cursorDown
    \/ cursorUp
    \/ showNewOverrideInput
    \/ inputEscape
    \/ inputDone
    \/ showDeleteConfirmation
    \/ deleteCancel
    \/ deleteConfirm
    \/ showRenameInput
    \/ renameEscape
    \/ renameDone

SpecPaths == InitPaths /\ [][NextPaths]_vars

(***************************************************************************)
(* The keys on their own: the whole program, started on the overrides      *)
(* alpha and beta, both applied by .envrc, where the overrides directory   *)
(* can be read and it and .envrc can be written.                           *)
(***************************************************************************)
InitKeys ==
    /\ pc = "start"
    /\ disk = DiskTwo
    /\ rootReadable = TRUE
    /\ envrc = EnvrcUser
    /\ dirWritable = TRUE
    /\ envrcWritable = TRUE
    /\ direnvOk = TRUE
    /\ editBudget = 0
    /\ typeable = InputTexts
    /\ InitApp
    /\ InitHistory

SpecKeys == InitKeys /\ [][Next]_vars

(***************************************************************************)
(* The properties.                                                         *)
(***************************************************************************)
RegistryNames == { overrides[i].Name : i \in 1..Len(overrides) }

\* C1: savePersistedState with an Applied map S of names of the registry, then
\* loadPersistedState of the written file into an empty Applied map, gives
\* exactly S.
C1_RoundTrip ==
    (roundTrip.done /\ roundTrip.written /\ roundTrip.applied \subseteq RegistryNames)
        => (roundTrip.loaded = roundTrip.applied)

\* C1 for the names that strings.Split and strings.TrimSpace give back as
\* they were joined: no comma, no white space at either end, not empty.
C1_PlainName(name) ==
    /\ name # <<>>
    /\ TrimSpace(name) = name
    /\ \A i \in 1..Len(name) : name[i] # ","

C1_RoundTripPlainNames ==
    (/\ roundTrip.done /\ roundTrip.written
     /\ roundTrip.applied \subseteq RegistryNames
     /\ \A name \in roundTrip.applied : C1_PlainName(name))
        => (roundTrip.loaded = roundTrip.applied)

\* C2: no two overrides of the in-memory collection have the same Name.
C2_NamesUnique ==
    \A i, j \in 1..Len(overrides) : i # j => overrides[i].Name # overrides[j].Name

\* C3: once the program has started, every name of the Applied map is the Name
\* of an override of the collection.
C3_AppliedInRegistry ==
    pc \in { "running", "stopped" } => applied \subseteq RegistryNames

\* C4: getAvailableOverrides and getAppliedOverrides split the collection:
\* every override is in exactly one of the two results, the results hold
\* nothing else, and the two lists show them, an applied one after its marker.
C4_Partition ==
    pc = "running" =>
        LET av == getAvailableOverrides(overrides, applied)
            ap == getAppliedOverrides(overrides, applied)
            inAv(o) == \E k \in 1..Len(av) : av[k] = o
            inAp(o) == \E k \in 1..Len(ap) : ap[k] = o
        IN  /\ \A i \in 1..Len(overrides) : inAv(overrides[i]) # inAp(overrides[i])
            /\ \A k \in 1..Len(av) : \E i \in 1..Len(overrides) : overrides[i] = av[k]
            /\ \A k \in 1..Len(ap) : \E i \in 1..Len(overrides) : overrides[i] = ap[k]
            /\ Len(av) + Len(ap) = Len(overrides)
            /\ availableList.items = [ k \in 1..Len(av) |-> av[k].Name ]
            /\ Len(appliedList.items) = Len(ap)
            /\ \A k \in 1..Len(ap) :
                  LET item == appliedList.items[k]
                      name == ap[k].Name
                  IN  /\ Len(item) > Len(name)
                      /\ SubSeq(item, Len(item) - Len(name) + 1, Len(item)) = name

C4_BothPartitions ==
    /\ pc = "running"
    /\ Len(overrides) = 2
    /\ Len(availableList.items) = 1
    /\ Len(appliedList.items) = 1

\* C5: at most one of helpOpen, inputOpen, deleteOpen and renameOpen is true,
\* and while one of them is true no step sets another one.
OpenOverlays ==
    { n \in { "help", "input", "delete", "rename" } :
        \/ n = "help" /\ helpOpen
        \/ n = "input" /\ inputOpen
        \/ n = "delete" /\ deleteOpen
        \/ n = "rename" /\ renameOpen }

C5_ModalExclusive ==
    /\ [](Cardinality(OpenOverlays) <= 1)
    /\ [][OpenOverlays # {} => OpenOverlays' \subseteq OpenOverlays]_vars

C5_OverlayOpen == renameOpen /\ Len(overrides) = 2 /\ applied # {}

C7_Fragment(o) ==
    LET modulePath == IF Len(o.ModulePath) = 0
                      THEN << "o","v","e","r","r","i","d","e","s","/" >> \o o.Name
                      ELSE o.ModulePath
        module == IF Len(o.Module) = 0
                  THEN << "o","v","e","r","r","i","d","e" >>
                  ELSE o.Module
    IN  o.Type \o modulePath \o << "@" >> \o o.Block \o << "=" >> \o module

C8_SortedByName ==
    pc \in { "loaded", "running", "stopped" } =>
        \A i, j \in 1..Len(overrides) :
            i < j => ~ StrLess(overrides[j].Name, overrides[i].Name)

\* alpha renamed to beta, then a new alpha created
C8_RenamedAndCreated ==
    /\ pc = "running"
    /\ Len(overrides) = 2
    /\ overrides[1].Name = Alpha /\ overrides[1].ApplyInfo = TemplateDoc
    /\ overrides[2].Name = Beta /\ overrides[2].ApplyInfo = DocPlus

\* C9: a savePersistedState that writes the file keeps the lines of the old
\* file that are no managed assignments: they are the first lines of the new
\* file, unchanged and in their order, and the lines after them are the
\* managed lines of this save.  A line is taken without its "\n" or "\r\n".
C9_Unrelated(line) ==
    ~ HasPrefix(line, AppliedPrefix) /\ ~ HasPrefix(line, OverrideStrPrefix)

C9_Lines(file) ==
    IF file.present
    THEN LET raw == RawLines(file.bytes) IN [ k \in 1..Len(raw) |-> DropCR(raw[k]) ]
    ELSE <<>>

C9_Kept(before, after) ==
    LET old == SelectSeq(C9_Lines(before), C9_Unrelated)
        new == C9_Lines(after)
    IN  /\ Len(new) >= Len(old)
        /\ SubSeq(new, 1, Len(old)) = old
        /\ Len(new) <= Len(old) + 2
        /\ \A k \in (Len(old) + 1)..Len(new) : ~ C9_Unrelated(new[k])

C9_UnrelatedKept ==
    [][(pc = "save" /\ envrcWritable) => C9_Kept(envrc, envrc')]_vars

\* C9 for the files bufio.Scanner reads to their end.
C9_ScannedLinesKept ==
    [][(pc = "save" /\ envrcWritable /\ ~ ScanErr(envrc.bytes)) => C9_Kept(envrc, envrc')]_vars

\* C10: after savePersistedState has written the file, the file has exactly
\* one line that starts with export HYDRA_OVERRIDE_STR=, holding in quotes
\* buildOverrideString with its newlines replaced by spaces, and it has one
\* applied-names line when an override of the registry is applied and none
\* otherwise.
C10_ManagedLines ==
    (pc = "load" /\ roundTrip.written) =>
        LET lines == C9_Lines(envrc)
            strs == SelectSeq(lines, LAMBDA l : HasPrefix(l, OverrideStrPrefix))
            names == SelectSeq(lines, LAMBDA l : HasPrefix(l, AppliedPrefix))
            text == buildOverrideString(overrides, applied)
            flat == [ i \in 1..Len(text) |-> IF text[i] = "\n" THEN " " ELSE text[i] ]
        IN  /\ Len(strs) = 1
            /\ strs[1] = OverrideStrPrefix \o << "\"" >> \o flat \o << "\"" >>
            /\ Len(names) = IF applied \cap RegistryNames # {} THEN 1 ELSE 0

\* a save with old managed lines in the file and only a name applied that is
\* not in the registry
C10_NothingOfRegistryApplied ==
    /\ pc = "load"
    /\ roundTrip.written
    /\ Len(C9_Lines(envrc)) = 3
    /\ applied # {}
    /\ applied \cap RegistryNames = {}

AvailableNames == { o.Name : o \in { getAvailableOverrides(overrides, applied)[k] :
                                        k \in 1..Len(getAvailableOverrides(overrides, applied)) } }

AppliedOverrideNames == { o.Name : o \in { getAppliedOverrides(overrides, applied)[k] :
                                              k \in 1..Len(getAppliedOverrides(overrides, applied)) } }

\* C11: after createNewOverride(x) has made its folder, x is among the
\* available overrides and not among the applied ones, and the folder holds
\* an empty override.yaml and an apply.md with the blank frontmatter.
C11_Created ==
    (lastOp.op = "create" /\ lastOp.ok) =>
        LET x == lastOp.name
        IN  /\ x \in AvailableNames
            /\ x \notin AppliedOverrideNames
            /\ disk[x].exists
            /\ disk[x].yaml = File(<<>>)
            /\ disk[x].apply = Doc("ok", <<>>, <<>>, <<>>, <<>>)

\* C11 for a name that is not in the Applied map, in a writable tree.
C11_CreatedFresh ==
    [][(lastOp'.op = "create" /\ lastOp'.ok /\ lastOp'.name \notin applied /\ dirWritable)
          => C11_Created']_vars

\* C12: after a rename of x to y whose os.Rename succeeded, the renamed
\* override has Name y and is applied exactly if x was applied before, x is
\* the name of no override and of no folder, and no other override's applied
\* status has changed.
C12_Post(x, y) ==
    /\ \E i \in 1..Len(overrides') :
          /\ overrides'[i] = [overrides[renameTarget] EXCEPT !.Name = y, !.FolderPath = y]
          /\ (overrides'[i].Name \in applied') <=> (x \in applied)
    /\ x \notin RegistryNames'
    /\ ~ disk'[x].exists
    /\ \A i \in 1..Len(overrides) :
          i # renameTarget =>
              /\ \E j \in 1..Len(overrides') : overrides'[j] = overrides[i]
              /\ (overrides[i].Name \in applied') <=> (overrides[i].Name \in applied)

C12_Renamed ==
    [][(lastOp'.op = "rename" /\ lastOp'.ok) => C12_Post(lastOp'.name, lastOp'.newName)]_vars

\* C12 from the states in which names are unique, every applied name is the
\* name of an override and every override has its folder.
C12_SoundState ==
    /\ C2_NamesUnique
    /\ applied \subseteq RegistryNames
    /\ \A i \in 1..Len(overrides) : disk[overrides[i].FolderPath].exists

C12_RenamedFromSoundState ==
    [][(lastOp'.op = "rename" /\ lastOp'.ok /\ C12_SoundState)
          => C12_Post(lastOp'.name, lastOp'.newName)]_vars

\* C13: a rename whose os.Rename fails changes nothing: the collection, the
\* Applied map, the folders and the .envrc are as they were.
C13_FailedRenameKeepsState ==
    [][(lastOp'.op = "rename" /\ ~ lastOp'.ok) =>
          /\ overrides' = overrides
          /\ applied' = applied
          /\ envrc' = envrc
          /\ disk' = disk]_vars

\* a rename of an applied override onto the name of another override's folder
C13_RenameOntoExisting ==
    /\ lastOp.op = "rename" /\ ~ lastOp.ok
    /\ dirWritable /\ envrcWritable
    /\ lastOp.name \in applied
    /\ disk[lastOp.newName].exists

\* C14: after deleteSelectedOverride has run on x, x is the name of no
\* override, is not in the Applied map, and has no folder.
C14_Post ==
    LET x == lastOp.name
    IN  /\ x \notin RegistryNames
        /\ x \notin applied
        /\ ~ disk[x].exists

C14_Deleted == lastOp.op = "delete" => C14_Post

\* C14 for a delete whose os.RemoveAll succeeds, of a name held by one override.
C14_DeletedWhenRemoved ==
    [][(lastOp'.op = "delete" /\ lastOp'.ok /\ C2_NamesUnique) => C14_Post']_vars

\* C15: deleteSelectedOverride never leaves x out of the collection while
\* its folder is still there.
C15_NoFolderWithoutOverride ==
    lastOp.op = "delete" => ~ (lastOp.name \notin RegistryNames /\ disk[lastOp.name].exists)

\* C16: a createNewOverride whose os.MkdirAll or os.WriteFile fails leaves
\* the collection and the Applied map as they were.
C16_FailedCreateKeepsState ==
    [][(lastOp'.op = "create" /\ (~ MkdirAllOk(lastOp'.name) \/ ~ WriteFileOk)) =>
          (overrides' = overrides /\ applied' = applied)]_vars

\* C16 for the failure of os.MkdirAll alone.
C16_FailedMkdirKeepsState ==
    [][(lastOp'.op = "create" /\ ~ lastOp'.ok) =>
          (overrides' = overrides /\ applied' = applied /\ disk' = disk)]_vars

\* Whether a file has an applied-names line, and the value of the first
\* one, without its quotes.
C17_HasLine(file) ==
    \E k \in 1..Len(C9_Lines(file)) : HasPrefix(C9_Lines(file)[k], AppliedPrefix)

C17_Value(file) ==
    LET lines == SelectSeq(C9_Lines(file), LAMBDA l : HasPrefix(l, AppliedPrefix))
        v == SubSeq(lines[1], Len(AppliedPrefix) + 1, Len(lines[1]))
    IN  SelectSeq(v, LAMBDA c : c \notin { "\"", "'" })

\* Standard base64: groups of four characters of the alphabet, the last
\* group ending with at most two "=".
C17_IsBase64(v) ==
    /\ Len(v) % 4 = 0
    /\ \E pad \in 0..2 :
          /\ pad <= Len(v)
          /\ \A i \in 1..Len(v) :
                IF i > Len(v) - pad THEN v[i] = "="
                ELSE \E k \in 1..Len(B64Alphabet) : B64Alphabet[k] = v[i]

\* C17: when the value of the applied-names line is present and no base64,
\* the load reports an error and adds no name, and main() warns and goes on
\* to the interactive loop.
C17_CorruptWarnsAndContinues ==
    [][(/\ pc = "loaded"
        /\ C17_HasLine(envrc)
        /\ C17_Value(envrc) # <<>>
        /\ ~ C17_IsBase64(C17_Value(envrc))) =>
          (loadWarning' /\ applied' = {} /\ pc' = "running")]_vars

C17_StartedOnCorruptFile ==
    /\ pc = "running"
    /\ envrc = EnvrcCorrupt
    /\ loadWarning
    /\ applied = {}
    /\ Len(availableList.items) = 2

\* C18: when the file is missing, or the value of its applied-names line is
\* empty, the load reports no error and adds no name.
C18_MissingOrEmptyIsNoError ==
    [][(/\ pc = "loaded"
        /\ \/ ~ envrc.present
           \/ C17_HasLine(envrc) /\ C17_Value(envrc) = <<>>) =>
          (~ loadWarning' /\ applied' = {} /\ pc' = "running")]_vars

C18_StartedOnEmptyValue ==
    /\ pc = "running"
    /\ envrc = EnvrcEmptyValue
    /\ ~ loadWarning
    /\ applied = {}
    /\ Len(availableList.items) = 2

\* C19: savePersistedState returns no error whenever os.WriteFile
\* succeeded, whatever direnv allow did.
C19_AllowFailureNotReturned ==
    (roundTrip.saved /\ roundTrip.written) => ~ roundTrip.saveErr

\* C19 for the saves after which direnv allow succeeds.
C19_NoErrorWhenAllowSucceeds ==
    (roundTrip.saved /\ roundTrip.written /\ direnvOk) => ~ roundTrip.saveErr

\* C20: a toggle that finds an item under the cursor of the focused list
\* adds exactly that item's name to the Applied map when the Available panel
\* is focused and removes exactly it when the Applied panel is focused; then
\* the file, when it can be written, ends with the override-string line for
\* the new map, and the lists and the view show the new map.
C20_Flat(text) == [ i \in 1..Len(text) |-> IF text[i] = "\n" THEN " " ELSE text[i] ]

C20_Post(name) ==
    /\ IF currentPanelIdx = 0
       THEN /\ availableList.items[availableList.cur + 1] = name
            /\ applied' = applied \cup { name }
       ELSE /\ appliedList.items[appliedList.cur + 1]
                  \in { MarkerGreen \o name, MarkerYellow \o name }
            /\ applied' = applied \ { name }
    /\ overrides' = overrides
    /\ envrcWritable =>
          LET lines == C9_Lines(envrc')
          IN  /\ lines # <<>>
              /\ lines[Len(lines)] =
                    OverrideStrPrefix \o << "\"" >>
                        \o C20_Flat(buildOverrideString(overrides, applied')) \o << "\"" >>
    /\ availableList'.items =
          SelectSeq([ i \in 1..Len(overrides) |-> overrides[i].Name ],
                    LAMBDA n : n \notin applied')
    /\ Len(appliedList'.items) =
          Cardinality({ i \in 1..Len(overrides) : overrides[i].Name \in applied' })
    /\ overrideStringView' =
          IF buildOverrideString(overrides, applied') = <<>> THEN NoOverridesText
          ELSE buildOverrideString(overrides, applied')

C20_Toggled ==
    [][(lastOp'.op = "toggle" /\ lastOp'.ok) => C20_Post(lastOp'.name)]_vars

\* the second of two applied overrides has just been removed
C20_RemovedSecond ==
    /\ lastOp.op = "toggle" /\ lastOp.ok
    /\ currentPanelIdx = 1
    /\ envrcWritable
    /\ lastOp.name = Beta
    /\ applied = { Alpha }
    /\ Len(appliedList.items) = 1

\* A step of the running program that leaves the file as savePersistedState
\* writes it from the new registry and the new Applied.
C21_SavedInStep ==
    envrc' = IF envrcWritable
             THEN File(savePersistedState(envrc, overrides', applied'))
             ELSE envrc

\* C21: every action that changes the registry or Applied (toggle, create,
\* delete, rename, reload after an edit) ends with a save of the persisted
\* state, before the next key is read.
C21_SaveAfterEveryMutation ==
    [][ (pc = "running" /\ (overrides' # overrides \/ applied' # applied))
            => C21_SavedInStep ]_vars

\* C21, for the three operations that call savePersistedState: a toggle, a
\* delete and a rename that changed the state end with the save.
C21_SaveAfterToggleDeleteRename ==
    [][ (/\ lastOp'.op \in {"toggle", "delete", "rename"}
         /\ (overrides' # overrides \/ applied' # applied))
            => C21_SavedInStep ]_vars

\* The list of the focused panel has no item.
C22_FocusedListEmpty ==
    IF currentPanelIdx = 0 THEN availableList.items = <<>> ELSE appliedList.items = <<>>

\* C22: the delete key and the rename key open their overlay only when the
\* focused panel has a selection: with an empty focused list no step opens
\* DeleteConfirm or RenameInput.
C22_NoOverlayWithoutSelection ==
    [][ (pc = "running" /\ OpenOverlays = {} /\ C22_FocusedListEmpty)
            => (~ deleteOpen' /\ ~ renameOpen') ]_vars

\* C22, where getSelectedOverride returns nil: with an empty registry the two
\* keys open nothing.
C22_NoOverlayOnEmptyRegistry ==
    [][ (pc = "running" /\ OpenOverlays = {} /\ overrides = <<>>)
            => (~ deleteOpen' /\ ~ renameOpen') ]_vars

\* C23: in RenameInput, Enter calls renameSelectedOverride exactly when the
\* trimmed text is non-empty and differs from the target's name; whether it
\* renamed or not, the overlay is closed and the rename target is cleared.
C23_RenameConfirm ==
    [][ (pc = "running" /\ renameOpen)
            => /\ lastOp'.op = "rename"
                    => /\ lastOp'.name = overrides[renameTarget].Name
                       /\ lastOp'.newName # <<>>
                       /\ lastOp'.newName = TrimSpace(lastOp'.newName)
                       /\ lastOp'.newName # lastOp'.name
               /\ lastOp'.op # "enter"
               /\ lastOp'.op # "rename" => UNCHANGED <<overrides, applied, disk, envrc>>
               /\ OpenOverlays' = {}
               /\ renameTarget' = 0 ]_vars

C23_RenamedAndClosed ==
    /\ lastOp.op = "rename" /\ lastOp.ok
    /\ lastOp.newName \in RegistryNames
    /\ OpenOverlays = {}
    /\ renameTarget = 0

\* C24: in NewOverrideInput, Enter calls createNewOverride exactly when the
\* trimmed text is non-empty; with an empty or blank text the registry and
\* the disk stay as they are; in both cases the overlay is closed.
C24_CreateConfirm ==
    [][ (pc = "running" /\ inputOpen)
            => /\ lastOp'.op = "create"
                    => /\ lastOp'.name # <<>>
                       /\ lastOp'.name = TrimSpace(lastOp'.name)
               /\ lastOp'.op # "enter"
               /\ lastOp'.op # "create" => UNCHANGED <<overrides, applied, disk, envrc>>
               /\ OpenOverlays' = {} ]_vars

C24_CreatedAndClosed ==
    /\ lastOp.op = "create" /\ lastOp.ok
    /\ lastOp.name = Beta
    /\ Beta \in RegistryNames
    /\ OpenOverlays = {}

\* C25: a step that leaves NewOverrideInput, DeleteConfirm or RenameInput
\* without running the operation (Esc, or 'q' in DeleteConfirm) closes the
\* overlay and leaves the registry, Applied, the focused panel, the disk and
\* .envrc as they were when the overlay was opened; opening changes none of them.
C25_CancelChangesNothing ==
    [][ /\ (/\ ~ helpOpen
            /\ inputOpen \/ deleteOpen \/ renameOpen
            /\ lastOp'.op = "none")
            => /\ OpenOverlays' = {}
               /\ UNCHANGED <<overrides, applied, currentPanelIdx, disk, envrc>>
        /\ (pc = "running" /\ OpenOverlays = {} /\ OpenOverlays' # {})
            => UNCHANGED <<overrides, applied, currentPanelIdx, disk, envrc>> ]_vars

C25_OverlayOverAppliedPanel ==
    /\ deleteOpen
    /\ currentPanelIdx = 1
    /\ applied = {Alpha, Beta}
    /\ Len(overrides) = 2
    /\ envrc.present

C27_TargetExists(filename) ==
    /\ getSelectedOverride # 0
    /\ LET folder == disk[overrides[getSelectedOverride].FolderPath]
       IN  /\ folder.exists
           /\ IF filename = "apply.md" THEN folder.apply # NoApply ELSE folder.yaml.present

\* C27: 'e' and 'E' run the editor and the reload only while no overlay is
\* open, and change nothing when the file of the selected override is missing.
C27_EditOnlyInNormal ==
    [][ \A filename \in { "apply.md", "override.yaml" } :
            openInEditor(filename)
                => /\ OpenOverlays = {}
                   /\ ~ C27_TargetExists(filename)
                        => UNCHANGED <<disk, overrides, overrideStringView, editBudget>> ]_vars

\* C27, from the side of the overlays: under an open overlay no step of the
\* user's spends an editor session.
C27_NoEditUnderOverlay ==
    [][ OpenOverlays # {} => editBudget' = editBudget ]_vars

C27_EditedAndReloaded ==
    /\ pc = "running"
    /\ editBudget < MaxEdits
    /\ \E i \in 1..Len(overrides) :
          /\ overrides[i].ApplyInfo = DocModule
          /\ disk[overrides[i].FolderPath].apply = DocModule
          /\ ~ disk[overrides[i].FolderPath].yaml.present

\* The Names of a collection, in its order.
C28_NameSeq(ovs) == [ i \in 1..Len(ovs) |-> ovs[i].Name ]

\* C28: the reload of the selected override after an editor session leaves
\* Applied, the Names of the collection and their order, and every override
\* of another name as they were.
C28_ReloadFrame ==
    [][ (\E filename \in { "apply.md", "override.yaml" } : openInEditor(filename))
            => /\ applied' = applied
               /\ C28_NameSeq(overrides') = C28_NameSeq(overrides)
               /\ \A i \in 1..Len(overrides) :
                     (getSelectedOverride # 0
                        /\ overrides[i].Name # overrides[getSelectedOverride].Name)
                         => overrides'[i] = overrides[i] ]_vars

C28_ReloadedSecondOfTwo ==
    /\ pc = "running"
    /\ Len(overrides) = 2
    /\ applied # {}
    /\ overrides[1].ApplyInfo = DocPlus
    /\ overrides[2].ApplyInfo = DocModule
    /\ overrides[2].Type = TypePlus

\* The cursor of a list is on one of its items.
C29_InBounds(list) ==
    list.items # <<>> => (list.cur >= 0 /\ list.cur <= Len(list.items) - 1)

\* The list of the focused panel.
C29_Focused(av, ap) == IF currentPanelIdx = 0 THEN av ELSE ap

C30_WithMetadata == { n \in Names : disk[n].exists /\ disk[n].apply.fm # "absent" }

\* C30: loadOverrides fails exactly when the overrides directory cannot be
\* read; otherwise the registry has one override for each folder that holds
\* an apply.md and none for the others, a folder with override.yaml only is
\* left out, and a folder whose frontmatter does not parse is loaded with
\* its text and content and with empty Type, Block, ModulePath and Module.
C30_LoadFromMetadata ==
    (pc # "start")
        => /\ (pc = "exit1") <=> ~ rootReadable
           /\ (pc # "exit1")
                => /\ RegistryNames = C30_WithMetadata
                   /\ Len(overrides) = Cardinality(C30_WithMetadata)
                   /\ \A i \in 1..Len(overrides) :
                         LET o == overrides[i]
                             folder == disk[o.Name]
                         IN  /\ o.ApplyInfo = folder.apply
                             /\ o.Content = (IF folder.yaml.present THEN folder.yaml.bytes
                                             ELSE <<>>)
                             /\ folder.apply.fm = "bad"
                                  => /\ o.Type = <<>> /\ o.Block = <<>>
                                     /\ o.ModulePath = <<>> /\ o.Module = <<>>
                             /\ folder.apply.fm = "ok"
                                  => o.Type = folder.apply.type /\ o.Block = folder.apply.block

C30_ContentOnlyAndBadFrontmatter ==
    /\ pc = "loaded"
    /\ disk[Alpha] = Folder(NoApply, File(Yaml2))
    /\ disk[Beta] = Folder(DocBad, File(Yaml1))
    /\ RegistryNames = {Beta}

\* C31: a toggle whose write of .envrc fails is a no-op: Applied and the
\* items of the two lists are as they were before the key.
C31_FailedSaveKeepsApplied ==
    [][ (lastOp'.op = "toggle" /\ lastOp'.ok /\ ~ envrcWritable)
            => /\ applied' = applied
               /\ availableList'.items = availableList.items
               /\ appliedList'.items = appliedList.items ]_vars

\* C31, what does hold of such a toggle: .envrc is as it was and the program
\* goes on running.
C31_FailedSaveKeepsFile ==
    [][ (lastOp'.op = "toggle" /\ lastOp'.ok /\ ~ envrcWritable)
            => (envrc' = envrc /\ pc' = "running") ]_vars

C33_NameIsBaseOfFolder ==
    \A i \in 1..Len(overrides) : overrides[i].Name = Base(overrides[i].FolderPath)

\* The override openInEditor reloads, as it is after the step, and the
\* override loadOverrides would build from its folder as it is after the step.
C34_Reloaded == overrides'[getSelectedOverride]
C34_Fresh ==
    LoadedOverride(overrides[getSelectedOverride].Name,
                   disk'[overrides[getSelectedOverride].FolderPath])

\* An editor step on an override whose folder still holds an apply.md.
C34_EditStep ==
    /\ \E filename \in { "apply.md", "override.yaml" } :
          openInEditor(filename) /\ C27_TargetExists(filename)
    /\ disk'[overrides[getSelectedOverride].FolderPath].apply # NoApply

\* C34: after the reload that follows an editor session the override equals
\* the one a fresh load of its folder builds (Type, Block, ModulePath,
\* Module, ApplyInfo and Content), and so does the override string.
C34_ReloadEqualsLoad ==
    [][ C34_EditStep
            => /\ C34_Reloaded = C34_Fresh
               /\ buildOverrideString(overrides', applied')
                    = buildOverrideString([overrides' EXCEPT ![getSelectedOverride] = C34_Fresh],
                                          applied') ]_vars

\* C34, for the fields reloadOverride assigns: when the frontmatter parses,
\* Type, Block, ApplyInfo and Content are those of a fresh load.
C34_ReloadedFieldsEqualLoad ==
    [][ (C34_EditStep /\ ParseMeta(C34_Fresh.ApplyInfo).ok)
            => /\ C34_Reloaded.Type = C34_Fresh.Type
               /\ C34_Reloaded.Block = C34_Fresh.Block
               /\ C34_Reloaded.ApplyInfo = C34_Fresh.ApplyInfo
               /\ C34_Reloaded.Content = C34_Fresh.Content ]_vars

\* C35: a create with a name the registry already has leaves the folder of
\* that name, with its override.yaml and apply.md, and the override's record
\* as they were.
C35_CreateExistingKeepsFiles ==
    [][ (lastOp'.op = "create" /\ lastOp'.name \in RegistryNames)
            => /\ disk'[JoinDir(lastOp'.name)] = disk[JoinDir(lastOp'.name)]
               /\ \A i \in 1..Len(overrides) :
                     \E j \in 1..Len(overrides') : overrides'[j] = overrides[i] ]_vars

\* C35, the part that holds: the record of the existing override stays in
\* the collection.
C35_CreateExistingKeepsRecord ==
    [][ (lastOp'.op = "create" /\ lastOp'.name \in RegistryNames)
            => \A i \in 1..Len(overrides) :
                  \E j \in 1..Len(overrides') : overrides'[j] = overrides[i] ]_vars

\* ---------------------------------------------------------------------------
\* C36  delete confirmation
\* ---------------------------------------------------------------------------

\* app.overrides without the element at index i.
C36_Without(ovs, i) == SubSeq(ovs, 1, i - 1) \o SubSeq(ovs, i + 1, Len(ovs))

\* C36: the Override removed by a confirmed delete is the Override that was
\* selected and named when the dialog was opened: the confirming step takes the
\* selected element, and no other, out of app.overrides.
C36_DeleteRemovesSelected ==
    [][(deleteConfirm /\ getSelectedOverride # 0)
          => overrides' = C36_Without(overrides, getSelectedOverride)]_vars

\* C36 (supporting): no step taken while the dialog is open, other than the
\* confirmed delete, changes the focused panel, the cursors, the registry or
\* the Applied set; the confirmed delete removes one Override that carries
\* the selected name, and the folder of the selected Override.
C36_DialogFreezesSelection ==
    [][deleteOpen =>
          /\ (~ deleteConfirm =>
                 UNCHANGED <<currentPanelIdx, availableList, appliedList, overrides, applied>>)
          /\ ((deleteConfirm /\ getSelectedOverride # 0) =>
                 /\ Len(overrides') = Len(overrides) - 1
                 /\ lastOp'.name = overrides[getSelectedOverride].Name
                 /\ (lastOp'.ok => disk'[overrides[getSelectedOverride].FolderPath] = NoDir))]_vars

\* C36: a state in which the dialog is open over two Overrides of one name,
\* the selected one not being the first of them.
C36_SecondOfTwoSelected ==
    /\ deleteOpen
    /\ getSelectedOverride # 0
    /\ \E k \in 1..Len(overrides) :
          /\ k < getSelectedOverride
          /\ overrides[k].Name = overrides[getSelectedOverride].Name
          /\ overrides[k] # overrides[getSelectedOverride]

(***************************************************************************)
(* savePersistedState run twice in a row on one registry and Applied map.  *)
(***************************************************************************)
\* A file whose first line ends in two carriage returns before its newline.
EnvrcCRCR ==
    File(UserLine1 \o << "\r", "\r", "\n" >> \o UserLine2 \o << "\n" >>)

ResaveFiles == CodecFiles \cup { EnvrcCRCR }

InitResave ==
    /\ pc = "save"
    /\ disk = DiskTwo
    /\ rootReadable = TRUE
    /\ envrc \in ResaveFiles
    /\ dirWritable = TRUE
    /\ envrcWritable = TRUE
    /\ direnvOk \in BOOLEAN
    /\ editBudget = 0
    /\ typeable = InputTexts
    /\ toggleOrder = <<>>
    /\ strSeen = NoMark(FALSE)
    /\ roundTrip = NoTrip
    /\ lastOp = NoOp
    /\ overrides \in Registries(CodecPool)
    /\ applied \in SUBSET CodecNames
    /\ InitRunning

\* savePersistedState() once more, on the file the first call wrote
CodecResave ==
    /\ pc = "load"
    /\ roundTrip.saved
    /\ UNCHANGED <<overrides, applied>>
    /\ WriteEnvrc
    /\ pc' = "resaved"
    /\ UNCHANGED <<loadWarning, roundTrip>>
    /\ UNCHANGED_Codec

NextResave ==
    \/ CodecSave
    \/ CodecResave

SpecResave == InitResave /\ [][NextResave]_vars

\* ---------------------------------------------------------------------------
\* C37  savePersistedState twice
\* ---------------------------------------------------------------------------

\* C37: with the registry and the Applied map unchanged, a second
\* savePersistedState on the file the first one wrote leaves the file
\* byte-identical.
C37_SecondSaveSameBytes ==
    [][CodecResave => envrc' = envrc]_vars

\* Some line of the file ends in a carriage return before its newline.
C37_DoubleCR(file) ==
    /\ file.present
    /\ \E k \in 1..Len(RawLines(file.bytes)) :
          LET line == RawLines(file.bytes)[k]
          IN  line # <<>> /\ line[Len(line)] = "\r"

\* C37 (supporting): the second save changes no byte unless the file just
\* written has a line that still ends in a carriage return; the managed
\* lines are never doubled.
C37_SecondSaveSameUnlessCR ==
    [][CodecResave =>
          /\ (~ C37_DoubleCR(envrc) => envrc' = envrc)
          /\ Len(SelectSeq(ScanLines(envrc'.bytes), IsManagedLine))
                = Len(SelectSeq(ScanLines(envrc.bytes), IsManagedLine))]_vars

\* C37: the first save has been run on the file with the doubled carriage
\* return.
C37_SavedOverDoubleCR ==
    /\ pc = "load"
    /\ roundTrip.saved
    /\ C37_DoubleCR(envrc)

\* ---------------------------------------------------------------------------
\* C38  toggle on an empty focused list
\* ---------------------------------------------------------------------------

\* The items of the focused panel's list, and of the other one.
C38_FocusedItems == IF currentPanelIdx = 0 THEN availableList.items ELSE appliedList.items

C38_OtherItems == IF currentPanelIdx = 0 THEN appliedList.items ELSE availableList.items

\* C38: a toggle while the focused panel's list is empty changes nothing: the
\* Applied map, the .envrc (no save is made), the registry, the lists and the
\* override-string view stay as they were, whatever the other panel holds.
C38_EmptyToggleNoOp ==
    [][(toggleOverride /\ C38_FocusedItems = <<>>)
          => /\ UNCHANGED <<applied, envrc, overrides, disk, availableList, appliedList,
                            overrideStringView, currentPanelIdx>>
             /\ lastOp' = Op("toggle", FALSE, <<>>, <<>>)]_vars

\* C38: a toggle has just found the focused list empty while the other panel
\* holds an override, and the .envrc on disk is not what a save would write.
C38_EmptyToggleDone ==
    /\ lastOp = Op("toggle", FALSE, <<>>, <<>>)
    /\ C38_FocusedItems = <<>>
    /\ C38_OtherItems # <<>>
    /\ envrc # File(savePersistedState(envrc, overrides, applied))

\* ---------------------------------------------------------------------------
\* C39  app.renameTarget and app.renameOpen
\* ---------------------------------------------------------------------------

\* C39: in every reachable state app.renameTarget is set exactly when the
\* rename input is open, and when set it refers to an Override of
\* app.overrides.
C39_TargetIffRenameOpen ==
    /\ (renameTarget # 0) <=> renameOpen
    /\ renameTarget \in 0..Len(overrides)

\* C39: the rename input is open on the second of two Overrides.
C39_RenameOpenOnSecond ==
    /\ renameOpen
    /\ Len(overrides) = 2
    /\ renameTarget = 2

\* C39: a rename has been carried out and its input closed again.
C39_RenameClosedAfterRename ==
    /\ lastOp.op = "rename"
    /\ lastOp.ok
    /\ ~ renameOpen
    /\ renameTarget = 0

====
